---- MODULE Spec2Model ----
(***************************************************************************)
(* A model of the kilo-derived terminal text editor: the key decoder, the  *)
(* row buffer with tab rendering and syntax highlighting, the cursor and   *)
(* scroll arithmetic, incremental search, save and quit confirmation.      *)
(* Characters are their byte values; C array index i is sequence index     *)
(* i + 1.  Every state is one in which the process is blocked reading a    *)
(* key (the screen has just been refreshed), or has terminated.            *)
(***************************************************************************)
EXTENDS Integers, Sequences, FiniteSets, TLC

VARIABLES
  E,           \* struct editorConfig E (cursor, scroll, rows, dirty, filename, syntax)
  quit_times,  \* static int quit_times of editorProcessKeypress
  mode,        \* where control is: "edit", "find", "saveas", "exit", "crash"
  buf,         \* the input buffer of the running editorPrompt
  find,        \* statics of editorFindCallback and the locals of editorFind
  statusmsg,   \* which status message was set last
  input,       \* what the terminal can deliver for one key (fixed in a run)
  keysleft,    \* how many more keys this run reads
  last         \* history: what the last key did in editorProcessKeypress,
               \* with the document before it for an insertion

vars == <<E, quit_times, mode, buf, find, statusmsg, input, keysleft, last>>

-----------------------------------------------------------------------------
(* Bounds of the model *)

MaxKeys == 4
MaxDeepKeys == 5
ScreenRows == 2
ScreenCols == 4
MaxTokens == 3
MaxReads == 4
MaxRowOps == 3
MaxUpdates == 2
MaxLineLen == 6

-----------------------------------------------------------------------------
(* defines *)

KILO_TAB_STOP == 8
KILO_QUIT_TIMES == 2

CTRL_KEY(k) == k % 32

BACKSPACE == 127
ARROW_LEFT == 1000
ARROW_RIGHT == 1001
ARROW_UP == 1002
ARROW_DOWN == 1003
DEL_KEY == 1004
HOME_KEY == 1005
END_KEY == 1006
PAGE_UP == 1007
PAGE_DOWN == 1008

HL_NORMAL == 0
HL_COMMENT == 1
HL_MLCOMMENT == 2
HL_KEYWORD1 == 3
HL_KEYWORD2 == 4
HL_STRING == 5
HL_NUMBER == 6
HL_MATCH == 7

\* '\x1b', '\r', '\t', '\n' as the source writes them
ESC == 27
CR == 13
TAB == 9
LF == 10

\* The null pointer, where a char buffer is expected: no buffer equals it
NULL == <<-1>>

-----------------------------------------------------------------------------
(* <ctype.h> and <string.h> in the C locale, on the byte values used *)

isspace(c) == c \in 9..13 \/ c = 32
isdigit(c) == c \in 48..57
iscntrl(c) == c \in 0..31 \/ c = 127

\* strncmp(&s[i], t, Len(t)) == 0 for NUL-free s and t
StartsWith(s, i, t) ==
  /\ i + Len(t) <= Len(s)
  /\ \A k \in 1..Len(t) : s[i + k] = t[k]

\* memset(&a[i], v, n)
memset(a, i, v, n) ==
  [k \in 1..Len(a) |-> IF k > i /\ k <= i + n THEN v ELSE a[k]]

\* strstr(s, t): the offset of the first occurrence of t in s, -1 for NULL
strstr(s, t) ==
  LET hits == {i \in 0..Len(s) : StartsWith(s, i, t)}
  IN  IF hits = {} THEN -1 ELSE CHOOSE i \in hits : \A j \in hits : i <= j

\* strrchr(s, c): the suffix of s from the last occurrence of c, NULL if none
strrchr(s, c) ==
  LET hits == {i \in 1..Len(s) : s[i] = c}
  IN  IF hits = {} THEN NULL
      ELSE SubSeq(s, CHOOSE i \in hits : \A j \in hits : j <= i, Len(s))

-----------------------------------------------------------------------------
(* filetypes *)

\* ".c", ".h", ".cpp"
C_HL_extensions == << <<46, 99>>, <<46, 104>>, <<46, 99, 112, 112>> >>

\* The keyword table as the compiler sees it: "else" "struct" are adjacent
\* string literals and form the single entry "elsestruct".  A trailing '|'
\* (124) marks a secondary keyword.
C_HL_keywords == <<
    <<115, 119, 105, 116, 99, 104>>,                   \* "switch"
    <<105, 102>>,                                      \* "if"
    <<119, 104, 105, 108, 101>>,                       \* "while"
    <<102, 111, 114>>,                                 \* "for"
    <<98, 114, 101, 97, 107>>,                         \* "break"
    <<99, 111, 110, 116, 105, 110, 117, 101>>,         \* "continue"
    <<114, 101, 116, 117, 114, 110>>,                  \* "return"
    <<101, 108, 115, 101, 115, 116, 114, 117, 99, 116>>, \* "else" "struct"
    <<117, 110, 105, 111, 110>>,                       \* "union"
    <<116, 121, 112, 101, 100, 101, 102>>,             \* "typedef"
    <<115, 116, 97, 116, 105, 99>>,                    \* "static"
    <<101, 110, 117, 109>>,                            \* "enum"
    <<99, 108, 97, 115, 115>>,                         \* "class"
    <<99, 97, 115, 101>>,                              \* "case"
    <<105, 110, 116, 124>>,                            \* "int|"
    <<108, 111, 110, 103, 124>>,                       \* "long|"
    <<100, 111, 117, 98, 108, 101, 124>>,              \* "double|"
    <<102, 108, 111, 97, 116, 124>>,                   \* "float|"
    <<99, 104, 97, 114, 124>>,                         \* "char|"
    <<117, 110, 115, 105, 103, 110, 101, 100, 124>>,   \* "unsigned|"
    <<115, 105, 103, 110, 101, 100, 124>>,             \* "signed|"
    <<118, 111, 105, 100, 124>>                        \* "void|"
  >>

\* The highlight database; E.syntax is 0 for NULL, j + 1 for &HLDB[j].
HLDB == <<
    [ filetype |-> "c",
      filematch |-> C_HL_extensions,
      keywords |-> C_HL_keywords,
      singleline_comment_start |-> <<47, 47>>,       \* "//"
      multiline_comment_start |-> <<47, 42>>,        \* "/*"
      multiline_comment_end |-> <<42, 47>>,          \* "*/"
      HL_HIGHLIGHT_NUMBERS |-> TRUE,
      HL_HIGHLIGHT_STRINGS |-> TRUE ]
  >>

-----------------------------------------------------------------------------
(* syntax highlighting *)

\* ",.()+-/*=~%<>[];" and the terminating NUL that strchr also finds
is_separator(c) ==
  \/ isspace(c)
  \/ c = 0
  \/ c \in {44, 46, 40, 41, 43, 45, 47, 42, 61, 126, 37, 60, 62, 91, 93, 59}

\* render[i] of a NUL-terminated buffer of length Len(render) + 1
CharAt(render, i) == IF i < Len(render) THEN render[i + 1] ELSE 0

\* The keyword loop at position i: the index of the first keyword that
\* matches there and is followed by a separator, 0 if none does.
KeywordLen(kw) == IF kw[Len(kw)] = 124 THEN Len(kw) - 1 ELSE Len(kw)

\* Mutant: the separator after the keyword is not required
KeywordAt_NoSeparatorAfter(keywords, render, i) ==
  LET hits == {j \in 1..Len(keywords) :
                 StartsWith(render, i, SubSeq(keywords[j], 1, KeywordLen(keywords[j])))}
  IN  IF hits = {} THEN 0 ELSE CHOOSE j \in hits : \A k \in hits : j <= k

KeywordAt(keywords, render, i) ==
  LET hits == {j \in 1..Len(keywords) :
                 /\ StartsWith(render, i, SubSeq(keywords[j], 1, KeywordLen(keywords[j])))
                 /\ is_separator(CharAt(render, i + KeywordLen(keywords[j])))}
  IN  IF hits = {} THEN 0 ELSE CHOOSE j \in hits : \A k \in hits : j <= k

\* Mutant: a single-line comment marker also counts inside a string
RECURSIVE ScanRow_CommentInString(_, _, _, _, _, _, _)
ScanRow_CommentInString(syn, render, hl, i, prev_sep, in_string, in_comment) ==
  IF i >= Len(render) THEN [hl |-> hl, in_comment |-> in_comment]
  ELSE
    LET c == render[i + 1]
        prev_hl == IF i > 0 THEN hl[i] ELSE HL_NORMAL
        scs == syn.singleline_comment_start
        mcs == syn.multiline_comment_start
        mce == syn.multiline_comment_end
        ml == Len(mcs) > 0 /\ Len(mce) > 0 /\ in_string = 0
        kw == IF prev_sep THEN KeywordAt(syn.keywords, render, i) ELSE 0
    IN
    IF Len(scs) > 0 /\ ~in_comment /\ StartsWith(render, i, scs)
    THEN [hl |-> memset(hl, i, HL_COMMENT, Len(render) - i), in_comment |-> in_comment]
    ELSE IF ml /\ in_comment /\ StartsWith(render, i, mce)
    THEN ScanRow_CommentInString(syn, render, memset(hl, i, HL_MLCOMMENT, Len(mce)),
                 i + Len(mce), TRUE, in_string, FALSE)
    ELSE IF ml /\ in_comment
    THEN ScanRow_CommentInString(syn, render, [hl EXCEPT ![i + 1] = HL_MLCOMMENT],
                 i + 1, prev_sep, in_string, in_comment)
    ELSE IF ml /\ StartsWith(render, i, mcs)
    THEN ScanRow_CommentInString(syn, render, memset(hl, i, HL_MLCOMMENT, Len(mcs)),
                 i + Len(mcs), prev_sep, in_string, TRUE)
    ELSE IF syn.HL_HIGHLIGHT_STRINGS /\ in_string # 0 /\ c = 92 /\ i + 1 < Len(render)
    THEN ScanRow_CommentInString(syn, render, memset(hl, i, HL_STRING, 2),
                 i + 2, prev_sep, in_string, in_comment)
    ELSE IF syn.HL_HIGHLIGHT_STRINGS /\ in_string # 0
    THEN ScanRow_CommentInString(syn, render, [hl EXCEPT ![i + 1] = HL_STRING],
                 i + 1, TRUE, IF c = in_string THEN 0 ELSE in_string, in_comment)
    ELSE IF syn.HL_HIGHLIGHT_STRINGS /\ c \in {34, 39}
    THEN ScanRow_CommentInString(syn, render, [hl EXCEPT ![i + 1] = HL_STRING],
                 i + 1, prev_sep, c, in_comment)
    ELSE IF /\ syn.HL_HIGHLIGHT_NUMBERS
            /\ \/ isdigit(c) /\ (prev_sep \/ prev_hl = HL_NUMBER)
               \/ c = 46 /\ prev_hl = HL_NUMBER
    THEN ScanRow_CommentInString(syn, render, [hl EXCEPT ![i + 1] = HL_NUMBER],
                 i + 1, FALSE, in_string, in_comment)
    ELSE IF kw # 0
    THEN ScanRow_CommentInString(syn, render,
                 memset(hl, i,
                        IF syn.keywords[kw][Len(syn.keywords[kw])] = 124
                        THEN HL_KEYWORD2 ELSE HL_KEYWORD1,
                        KeywordLen(syn.keywords[kw])),
                 i + KeywordLen(syn.keywords[kw]), FALSE, in_string, in_comment)
    ELSE ScanRow_CommentInString(syn, render, hl, i + 1, is_separator(c), in_string, in_comment)

\* The body of the while loop of editorUpdateSyntax from position i on;
\* the result is the finished hl array and the final in_comment.
RECURSIVE ScanRow(_, _, _, _, _, _, _)
ScanRow(syn, render, hl, i, prev_sep, in_string, in_comment) ==
  IF i >= Len(render) THEN [hl |-> hl, in_comment |-> in_comment]
  ELSE
    LET c == render[i + 1]
        prev_hl == IF i > 0 THEN hl[i] ELSE HL_NORMAL
        scs == syn.singleline_comment_start
        mcs == syn.multiline_comment_start
        mce == syn.multiline_comment_end
        ml == Len(mcs) > 0 /\ Len(mce) > 0 /\ in_string = 0
        kw == IF prev_sep THEN KeywordAt(syn.keywords, render, i) ELSE 0
    IN
    IF Len(scs) > 0 /\ in_string = 0 /\ ~in_comment /\ StartsWith(render, i, scs)
    THEN [hl |-> memset(hl, i, HL_COMMENT, Len(render) - i), in_comment |-> in_comment]
    ELSE IF ml /\ in_comment /\ StartsWith(render, i, mce)
    THEN ScanRow(syn, render, memset(hl, i, HL_MLCOMMENT, Len(mce)),
                 i + Len(mce), TRUE, in_string, FALSE)
    ELSE IF ml /\ in_comment
    THEN ScanRow(syn, render, [hl EXCEPT ![i + 1] = HL_MLCOMMENT],
                 i + 1, prev_sep, in_string, in_comment)
    ELSE IF ml /\ StartsWith(render, i, mcs)
    THEN ScanRow(syn, render, memset(hl, i, HL_MLCOMMENT, Len(mcs)),
                 i + Len(mcs), prev_sep, in_string, TRUE)
    ELSE IF syn.HL_HIGHLIGHT_STRINGS /\ in_string # 0 /\ c = 92 /\ i + 1 < Len(render)
    THEN ScanRow(syn, render, memset(hl, i, HL_STRING, 2),
                 i + 2, prev_sep, in_string, in_comment)
    ELSE IF syn.HL_HIGHLIGHT_STRINGS /\ in_string # 0
    THEN ScanRow(syn, render, [hl EXCEPT ![i + 1] = HL_STRING],
                 i + 1, TRUE, IF c = in_string THEN 0 ELSE in_string, in_comment)
    ELSE IF syn.HL_HIGHLIGHT_STRINGS /\ c \in {34, 39}
    THEN ScanRow(syn, render, [hl EXCEPT ![i + 1] = HL_STRING],
                 i + 1, prev_sep, c, in_comment)
    ELSE IF /\ syn.HL_HIGHLIGHT_NUMBERS
            /\ \/ isdigit(c) /\ (prev_sep \/ prev_hl = HL_NUMBER)
               \/ c = 46 /\ prev_hl = HL_NUMBER
    THEN ScanRow(syn, render, [hl EXCEPT ![i + 1] = HL_NUMBER],
                 i + 1, FALSE, in_string, in_comment)
    ELSE IF kw # 0
    THEN ScanRow(syn, render,
                 memset(hl, i,
                        IF syn.keywords[kw][Len(syn.keywords[kw])] = 124
                        THEN HL_KEYWORD2 ELSE HL_KEYWORD1,
                        KeywordLen(syn.keywords[kw])),
                 i + KeywordLen(syn.keywords[kw]), FALSE, in_string, in_comment)
    ELSE ScanRow(syn, render, hl, i + 1, is_separator(c), in_string, in_comment)

\* The loop of editorUpdateSyntax again, for what it passes through: the
\* position i, in_string and in_comment at the start of every iteration.
RECURSIVE ScanStates(_, _, _, _, _, _, _)
ScanStates(syn, render, hl, i, prev_sep, in_string, in_comment) ==
  IF i >= Len(render) THEN {}
  ELSE
    LET c == render[i + 1]
        prev_hl == IF i > 0 THEN hl[i] ELSE HL_NORMAL
        scs == syn.singleline_comment_start
        mcs == syn.multiline_comment_start
        mce == syn.multiline_comment_end
        ml == Len(mcs) > 0 /\ Len(mce) > 0 /\ in_string = 0
        kw == IF prev_sep THEN KeywordAt(syn.keywords, render, i) ELSE 0
        here == {[i |-> i, in_string |-> in_string, in_comment |-> in_comment]}
    IN
    IF Len(scs) > 0 /\ in_string = 0 /\ ~in_comment /\ StartsWith(render, i, scs)
    THEN here
    ELSE IF ml /\ in_comment /\ StartsWith(render, i, mce)
    THEN here \cup ScanStates(syn, render, memset(hl, i, HL_MLCOMMENT, Len(mce)),
                 i + Len(mce), TRUE, in_string, FALSE)
    ELSE IF ml /\ in_comment
    THEN here \cup ScanStates(syn, render, [hl EXCEPT ![i + 1] = HL_MLCOMMENT],
                 i + 1, prev_sep, in_string, in_comment)
    ELSE IF ml /\ StartsWith(render, i, mcs)
    THEN here \cup ScanStates(syn, render, memset(hl, i, HL_MLCOMMENT, Len(mcs)),
                 i + Len(mcs), prev_sep, in_string, TRUE)
    ELSE IF syn.HL_HIGHLIGHT_STRINGS /\ in_string # 0 /\ c = 92 /\ i + 1 < Len(render)
    THEN here \cup ScanStates(syn, render, memset(hl, i, HL_STRING, 2),
                 i + 2, prev_sep, in_string, in_comment)
    ELSE IF syn.HL_HIGHLIGHT_STRINGS /\ in_string # 0
    THEN here \cup ScanStates(syn, render, [hl EXCEPT ![i + 1] = HL_STRING],
                 i + 1, TRUE, IF c = in_string THEN 0 ELSE in_string, in_comment)
    ELSE IF syn.HL_HIGHLIGHT_STRINGS /\ c \in {34, 39}
    THEN here \cup ScanStates(syn, render, [hl EXCEPT ![i + 1] = HL_STRING],
                 i + 1, prev_sep, c, in_comment)
    ELSE IF /\ syn.HL_HIGHLIGHT_NUMBERS
            /\ \/ isdigit(c) /\ (prev_sep \/ prev_hl = HL_NUMBER)
               \/ c = 46 /\ prev_hl = HL_NUMBER
    THEN here \cup ScanStates(syn, render, [hl EXCEPT ![i + 1] = HL_NUMBER],
                 i + 1, FALSE, in_string, in_comment)
    ELSE IF kw # 0
    THEN here \cup ScanStates(syn, render,
                 memset(hl, i,
                        IF syn.keywords[kw][Len(syn.keywords[kw])] = 124
                        THEN HL_KEYWORD2 ELSE HL_KEYWORD1,
                        KeywordLen(syn.keywords[kw])),
                 i + KeywordLen(syn.keywords[kw]), FALSE, in_string, in_comment)
    ELSE here \cup ScanStates(syn, render, hl, i + 1, is_separator(c), in_string, in_comment)

\* editorUpdateSyntax(&e.row[p]): hl is reallocated to rsize and cleared,
\* the row is scanned starting in the comment state of the row before it,
\* and when the row's hl_open_comment changes the next row is redone.
RECURSIVE editorUpdateSyntax(_, _)
editorUpdateSyntax(e, p) ==
  LET row == e.row[p + 1]
      hl0 == [k \in 1..Len(row.render) |-> HL_NORMAL]
  IN
  IF e.syntax = 0 THEN [e EXCEPT !.row[p + 1].hl = hl0]
  ELSE
    LET in_comment == row.idx > 0 /\ e.row[row.idx].hl_open_comment
        r == ScanRow(HLDB[e.syntax], row.render, hl0, 0, TRUE, 0, in_comment)
        changed == row.hl_open_comment # r.in_comment
        e1 == [e EXCEPT !.row[p + 1].hl = r.hl,
                        !.row[p + 1].hl_open_comment = r.in_comment]
    IN  IF changed /\ row.idx + 1 < e.numrows
        THEN editorUpdateSyntax(e1, row.idx + 1)
        ELSE e1

\* Mutant: the next row is redone whether or not the state changed
RECURSIVE SyntaxCalls_Always(_, _)
SyntaxCalls_Always(e, p) ==
  LET row == e.row[p + 1]
      hl0 == [k \in 1..Len(row.render) |-> HL_NORMAL]
  IN
  IF e.syntax = 0 THEN <<[row |-> p, changed |-> FALSE]>>
  ELSE
    LET in_comment == row.idx > 0 /\ e.row[row.idx].hl_open_comment
        r == ScanRow(HLDB[e.syntax], row.render, hl0, 0, TRUE, 0, in_comment)
        changed == row.hl_open_comment # r.in_comment
        e1 == [e EXCEPT !.row[p + 1].hl = r.hl,
                        !.row[p + 1].hl_open_comment = r.in_comment]
    IN  <<[row |-> p, changed |-> changed]>>
        \o (IF row.idx + 1 < e.numrows
            THEN SyntaxCalls_Always(e1, row.idx + 1)
            ELSE <<>>)

\* The calls of editorUpdateSyntax that editorUpdateSyntax(&e.row[p]) makes,
\* itself included, in order: for each the row it is given and whether
\* that row's hl_open_comment changed.
RECURSIVE SyntaxCalls(_, _)
SyntaxCalls(e, p) ==
  LET row == e.row[p + 1]
      hl0 == [k \in 1..Len(row.render) |-> HL_NORMAL]
  IN
  IF e.syntax = 0 THEN <<[row |-> p, changed |-> FALSE]>>
  ELSE
    LET in_comment == row.idx > 0 /\ e.row[row.idx].hl_open_comment
        r == ScanRow(HLDB[e.syntax], row.render, hl0, 0, TRUE, 0, in_comment)
        changed == row.hl_open_comment # r.in_comment
        e1 == [e EXCEPT !.row[p + 1].hl = r.hl,
                        !.row[p + 1].hl_open_comment = r.in_comment]
    IN  <<[row |-> p, changed |-> changed]>>
        \o (IF changed /\ row.idx + 1 < e.numrows
            THEN SyntaxCalls(e1, row.idx + 1)
            ELSE <<>>)

-----------------------------------------------------------------------------
(* row operations *)

\* Mutant: a tab always advances by a whole KILO_TAB_STOP
RxStep_WholeTab(rx, ch) ==
  IF ch = TAB THEN rx + KILO_TAB_STOP ELSE rx + 1

\* The column after the character ch drawn at column rx: a tab advances to
\* the next multiple of KILO_TAB_STOP, any other byte by one.
RxStep(rx, ch) ==
  IF ch = TAB THEN rx + (KILO_TAB_STOP - 1) - (rx % KILO_TAB_STOP) + 1 ELSE rx + 1

\* editorRowCxToRx.  chars is NUL-terminated, so chars[size] reads 0; the
\* bytes after the terminator are outside the string and each of them may
\* or may not compare equal to a tab: the result is the set of values the
\* loop can return (one value whenever cx <= size).
RECURSIVE CxToRxFrom(_, _, _, _)
CxToRxFrom(chars, cx, j, rxs) ==
  IF j >= cx THEN rxs
  ELSE IF j <= Len(chars)
       THEN CxToRxFrom(chars, cx, j + 1, {RxStep(rx, CharAt(chars, j)) : rx \in rxs})
       ELSE CxToRxFrom(chars, cx, j + 1,
                       {RxStep(rx, TAB) : rx \in rxs} \cup {RxStep(rx, 0) : rx \in rxs})

editorRowCxToRx(row, cx) == CxToRxFrom(row.chars, cx, 0, {0})

\* Mutant: the loop stops when cur_rx >= rx
RECURSIVE RxToCxFrom_StopsAtEqual(_, _, _, _)
RxToCxFrom_StopsAtEqual(chars, rx, cx, cur_rx) ==
  IF cx >= Len(chars) THEN cx
  ELSE IF RxStep(cur_rx, chars[cx + 1]) >= rx THEN cx
       ELSE RxToCxFrom_StopsAtEqual(chars, rx, cx + 1, RxStep(cur_rx, chars[cx + 1]))

\* Mutant: the render column is returned as it is
editorRowRxToCx_Column(row, rx) == rx

\* editorRowRxToCx
RECURSIVE RxToCxFrom(_, _, _, _)
RxToCxFrom(chars, rx, cx, cur_rx) ==
  IF cx >= Len(chars) THEN cx
  ELSE IF RxStep(cur_rx, chars[cx + 1]) > rx THEN cx
       ELSE RxToCxFrom(chars, rx, cx + 1, RxStep(cur_rx, chars[cx + 1]))

editorRowRxToCx(row, rx) == RxToCxFrom(row.chars, rx, 0, 0)

\* The render loop of editorUpdateRow: a tab becomes one space and then
\* spaces up to the next tab stop, any other byte is copied.
RECURSIVE PadToTabStop(_)
PadToTabStop(render) ==
  IF Len(render) % KILO_TAB_STOP # 0 THEN PadToTabStop(Append(render, 32)) ELSE render

RECURSIVE RenderFrom(_, _, _)
RenderFrom(chars, j, render) ==
  IF j >= Len(chars) THEN render
  ELSE IF chars[j + 1] = TAB
       THEN RenderFrom(chars, j + 1, PadToTabStop(Append(render, 32)))
       ELSE RenderFrom(chars, j + 1, Append(render, chars[j + 1]))

\* Mutant: the render is rebuilt but the highlight is not redone
editorUpdateRow_NoSyntax(e, p) ==
  [e EXCEPT !.row[p + 1].render = RenderFrom(e.row[p + 1].chars, 0, <<>>)]

\* editorUpdateRow(&e.row[p])
editorUpdateRow(e, p) ==
  editorUpdateSyntax(
    [e EXCEPT !.row[p + 1].render = RenderFrom(e.row[p + 1].chars, 0, <<>>)], p)

\* editorInsertRow(at, s, len) up to its call of editorUpdateRow: the rows
\* from at on have moved down and the new row has its chars
RowInserted(e, at, s) ==
  [e EXCEPT !.row = [j \in 1..(e.numrows + 1) |->
                       IF j <= at THEN e.row[j]
                       ELSE IF j = at + 1
                            THEN [idx |-> at, chars |-> s, render |-> <<>>, hl |-> <<>>,
                                  hl_open_comment |-> FALSE]
                            ELSE [e.row[j - 1] EXCEPT !.idx = @ + 1]]]

\* editorInsertRow(at, s, len): the new row is highlighted while numrows
\* still has its old value; numrows and dirty are incremented last.
editorInsertRow(e, at, s) ==
  IF at < 0 \/ at > e.numrows THEN e
  ELSE
    LET new == [idx |-> at, chars |-> s, render |-> <<>>, hl |-> <<>>,
                hl_open_comment |-> FALSE]
        moved == [j \in 1..(e.numrows + 1) |->
                    IF j <= at THEN e.row[j]
                    ELSE IF j = at + 1 THEN new
                    ELSE [e.row[j - 1] EXCEPT !.idx = @ + 1]]
        e1 == editorUpdateRow([e EXCEPT !.row = moved], at)
    IN  [e1 EXCEPT !.numrows = @ + 1, !.dirty = @ + 1]

\* Mutant: the rows after the deleted one keep their idx
editorDelRow_KeepsIdx(e, at) ==
  IF at < 0 \/ at >= e.numrows THEN e
  ELSE
    [e EXCEPT !.row = [j \in 1..(e.numrows - 1) |->
                         IF j <= at THEN e.row[j] ELSE e.row[j + 1]],
              !.numrows = @ - 1,
              !.dirty = @ + 1]

\* Mutant: a call with at out of range still counts as a change
editorDelRow_CountsMiss(e, at) ==
  IF at < 0 \/ at >= e.numrows THEN [e EXCEPT !.dirty = @ + 1]
  ELSE
    [e EXCEPT !.row = [j \in 1..(e.numrows - 1) |->
                         IF j <= at THEN e.row[j]
                         ELSE [e.row[j + 1] EXCEPT !.idx = @ - 1]],
              !.numrows = @ - 1,
              !.dirty = @ + 1]

\* editorDelRow(at)
editorDelRow(e, at) ==
  IF at < 0 \/ at >= e.numrows THEN e
  ELSE
    [e EXCEPT !.row = [j \in 1..(e.numrows - 1) |->
                         IF j <= at THEN e.row[j]
                         ELSE [e.row[j + 1] EXCEPT !.idx = @ - 1]],
              !.numrows = @ - 1,
              !.dirty = @ + 1]

\* editorRowInsertChar(&e.row[p], at, c)
editorRowInsertChar(e, p, at, c) ==
  LET chars == e.row[p + 1].chars
      a == IF at < 0 \/ at > Len(chars) THEN Len(chars) ELSE at
      e1 == [e EXCEPT !.row[p + 1].chars =
                        SubSeq(chars, 1, a) \o <<c>> \o SubSeq(chars, a + 1, Len(chars))]
      e2 == editorUpdateRow(e1, p)
  IN  [e2 EXCEPT !.dirty = @ + 1]

\* editorRowAppendString(&e.row[p], s, len)
editorRowAppendString(e, p, s) ==
  LET e1 == editorUpdateRow([e EXCEPT !.row[p + 1].chars = @ \o s], p)
  IN  [e1 EXCEPT !.dirty = @ + 1]

\* editorRowDelChar(&e.row[p], at)
editorRowDelChar(e, p, at) ==
  LET chars == e.row[p + 1].chars
  IN  IF at < 0 \/ at >= Len(chars) THEN e
      ELSE
        LET e1 == editorUpdateRow(
                    [e EXCEPT !.row[p + 1].chars =
                                SubSeq(chars, 1, at) \o SubSeq(chars, at + 2, Len(chars))], p)
        IN  [e1 EXCEPT !.dirty = @ + 1]

-----------------------------------------------------------------------------
(* editor operations *)

\* editorInsertChar(c)
editorInsertChar(e, c) ==
  LET e1 == IF e.cy = e.numrows THEN editorInsertRow(e, e.numrows, <<>>) ELSE e
      e2 == editorRowInsertChar(e1, e1.cy, e1.cx, c)
  IN  [e2 EXCEPT !.cx = @ + 1]

\* editorInsertNewline().  With cx beyond the end of the row the length
\* row->size - E.cx passed to editorInsertRow is negative and converts to a
\* huge size_t: the copy runs off the heap and the process dies; callers
\* test NewlineCrashes first.
NewlineCrashes(e) ==
  e.cx # 0 /\ (e.cy >= e.numrows \/ e.cx > Len(e.row[e.cy + 1].chars))

editorInsertNewline(e) ==
  LET e1 == IF e.cx = 0 THEN editorInsertRow(e, e.cy, <<>>)
            ELSE
              LET chars == e.row[e.cy + 1].chars
                  e2 == editorInsertRow(e, e.cy + 1, SubSeq(chars, e.cx + 1, Len(chars)))
              IN  editorUpdateRow(
                    [e2 EXCEPT !.row[e.cy + 1].chars = SubSeq(chars, 1, e.cx)], e.cy)
  IN  [e1 EXCEPT !.cy = @ + 1, !.cx = 0]

\* Mutant: on a join, E.cx is taken from the previous row after the append
editorDelChar_CxAfterAppend(e) ==
  IF e.cy = e.numrows THEN e
  ELSE IF e.cx = 0 /\ e.cy = 0 THEN e
  ELSE IF e.cx > 0
       THEN [editorRowDelChar(e, e.cy, e.cx - 1) EXCEPT !.cx = @ - 1]
       ELSE
         LET e2 == editorRowAppendString(e, e.cy - 1, e.row[e.cy + 1].chars)
             e3 == editorDelRow([e2 EXCEPT !.cx = Len(e2.row[e.cy].chars)], e.cy)
         IN  [e3 EXCEPT !.cy = @ - 1]

\* editorDelChar()
editorDelChar(e) ==
  IF e.cy = e.numrows THEN e
  ELSE IF e.cx = 0 /\ e.cy = 0 THEN e
  ELSE IF e.cx > 0
       THEN [editorRowDelChar(e, e.cy, e.cx - 1) EXCEPT !.cx = @ - 1]
       ELSE
         LET e1 == [e EXCEPT !.cx = Len(e.row[e.cy].chars)]
             e2 == editorRowAppendString(e1, e.cy - 1, e.row[e.cy + 1].chars)
             e3 == editorDelRow(e2, e.cy)
         IN  [e3 EXCEPT !.cy = @ - 1]

-----------------------------------------------------------------------------
(* terminal *)

\* What one read(STDIN_FILENO, &c, 1) gives: a byte 0..255 (it returns 1),
\* nothing within the timeout (it returns 0, or -1 with EAGAIN), or a
\* failure (it returns -1 with another errno).
NoData == -1
ReadError == -2

\* The result of read number i when the terminal gives the results rs in
\* this order and is silent after them
ResultAt(rs, i) == IF i <= Len(rs) THEN rs[i] ELSE NoData

\* read(...) == 1
Got(rs, i) == ResultAt(rs, i) \in 0..255

\* The while loop at the top of editorReadKey from read number i on: the
\* number of the read that ends it, 0 if the terminal falls silent first
RECURSIVE FirstRead(_, _)
FirstRead(rs, i) ==
  IF i > Len(rs) THEN 0
  ELSE IF rs[i] = NoData THEN FirstRead(rs, i + 1)
  ELSE i

\* switch (seq[1]) under seq[2] == '~'; without a matching case control
\* reaches the final return '\x1b'
\* Mutant: the switch has a case '3' that returns DEL_KEY
SwitchTilde_WithDelete(d) ==
  CASE d = 49 -> HOME_KEY
    [] d = 51 -> DEL_KEY
    [] d = 52 -> END_KEY
    [] d = 53 -> PAGE_UP
    [] d = 54 -> PAGE_DOWN
    [] d = 55 -> HOME_KEY
    [] d = 56 -> END_KEY
    [] OTHER -> ESC

SwitchTilde(d) ==
  CASE d = 49 -> HOME_KEY
    [] d = 52 -> END_KEY
    [] d = 53 -> PAGE_UP
    [] d = 54 -> PAGE_DOWN
    [] d = 55 -> HOME_KEY
    [] d = 56 -> END_KEY
    [] OTHER -> ESC

\* switch (seq[1]) under seq[0] == '['
SwitchBracket(l) ==
  CASE l = 65 -> ARROW_UP
    [] l = 66 -> ARROW_DOWN
    [] l = 67 -> ARROW_RIGHT
    [] l = 68 -> ARROW_LEFT
    [] l = 72 -> HOME_KEY
    [] l = 70 -> END_KEY
    [] OTHER -> ESC

\* switch (seq[1]) under seq[0] == '0'
SwitchZero(l) ==
  CASE l = 72 -> HOME_KEY
    [] l = 70 -> END_KEY
    [] OTHER -> ESC

\* editorReadKey() from the byte c = rs[i] that ended the while loop: the
\* key returned and the number of read() calls made so far.  A plain char
\* is returned as the (signed) char it is.
KeyFrom(rs, i) ==
  LET c == rs[i]
      Return(k, n) == [out |-> "key", key |-> k, reads |-> n]
  IN
  IF c # ESC THEN Return(IF c >= 128 THEN c - 256 ELSE c, i)
  ELSE IF ~Got(rs, i + 1) THEN Return(ESC, i + 1)
  ELSE IF ~Got(rs, i + 2) THEN Return(ESC, i + 2)
  ELSE IF rs[i + 1] = 91 /\ rs[i + 2] \in 48..57
       THEN IF ~Got(rs, i + 3) THEN Return(ESC, i + 3)
            ELSE IF rs[i + 3] = 126 THEN Return(SwitchTilde(rs[i + 2]), i + 3)
            ELSE Return(ESC, i + 3)
  ELSE IF rs[i + 1] = 91 THEN Return(SwitchBracket(rs[i + 2]), i + 2)
  ELSE IF rs[i + 1] = 48 THEN Return(SwitchZero(rs[i + 2]), i + 2)
  ELSE Return(ESC, i + 2)

\* One call of editorReadKey() on the read results rs: it returns a key,
\* or die("read") ends the process, or it goes on polling a silent terminal
ReadKeyCall(rs) ==
  LET i == FirstRead(rs, 1)
  IN  IF i = 0 THEN [out |-> "poll", key |-> 0, reads |-> Len(rs)]
      ELSE IF rs[i] = ReadError THEN [out |-> "die", key |-> 0, reads |-> i]
      ELSE KeyFrom(rs, i)

\* editorReadKey() when the terminal delivers the bytes bs, in this order,
\* to the successive read() calls and then nothing more before the timeout.
editorReadKey(bs) == ReadKeyCall(bs).key

\* What the terminal sends for one key: the bytes typed as text, the
\* control keys, a lone Escape, and the escape sequences of the arrow,
\* Home, End, Page Up, Page Down and Delete keys.
TypedBytes == {TAB, LF, 46, 47, 99}

TermInput ==
  {<<b>> : b \in TypedBytes}
  \cup {<<CR>>, <<BACKSPACE>>, <<ESC>>,
        <<CTRL_KEY(113)>>, <<CTRL_KEY(115)>>, <<CTRL_KEY(102)>>,
        <<CTRL_KEY(104)>>, <<CTRL_KEY(108)>>}
  \cup {<<ESC, 91, 65>>, <<ESC, 91, 66>>, <<ESC, 91, 67>>, <<ESC, 91, 68>>,
        <<ESC, 91, 72>>, <<ESC, 91, 70>>, <<ESC, 79, 72>>, <<ESC, 79, 70>>,
        <<ESC, 91, 53, 126>>, <<ESC, 91, 54, 126>>, <<ESC, 91, 51, 126>>}

\* A terminal on which only a few keys are used: c, Enter, Backspace,
\* Ctrl-Q, Ctrl-S, Ctrl-F, Escape, Down, Home, End, Page Down
NarrowInput ==
  {<<99>>, <<CR>>, <<BACKSPACE>>, <<ESC>>,
   <<CTRL_KEY(113)>>, <<CTRL_KEY(115)>>, <<CTRL_KEY(102)>>,
   <<ESC, 91, 66>>, <<ESC, 91, 72>>, <<ESC, 91, 70>>, <<ESC, 91, 54, 126>>}

\* The keys editorReadKey can hand to its callers
Keys == {editorReadKey(bs) : bs \in input}

-----------------------------------------------------------------------------
(* output *)

\* editorScroll(), the one part of editorRefreshScreen that changes E.
\* A set, because editorRowCxToRx is one when cx is beyond the row's end.
\* Mutant: the window is moved one line and one column too far
ScrollTo_OneTooFar(e, rx) ==
  LET ro1 == IF e.cy < e.rowoff THEN e.cy ELSE e.rowoff
      ro2 == IF e.cy >= ro1 + ScreenRows THEN e.cy - ScreenRows + 2 ELSE ro1
      co1 == IF rx < e.coloff THEN rx ELSE e.coloff
      co2 == IF rx >= co1 + ScreenCols THEN rx - ScreenCols + 2 ELSE co1
  IN  [e EXCEPT !.rx = rx, !.rowoff = ro2, !.coloff = co2]

ScrollTo(e, rx) ==
  LET ro1 == IF e.cy < e.rowoff THEN e.cy ELSE e.rowoff
      ro2 == IF e.cy >= ro1 + ScreenRows THEN e.cy - ScreenRows + 1 ELSE ro1
      co1 == IF rx < e.coloff THEN rx ELSE e.coloff
      co2 == IF rx >= co1 + ScreenCols THEN rx - ScreenCols + 1 ELSE co1
  IN  [e EXCEPT !.rx = rx, !.rowoff = ro2, !.coloff = co2]

editorScroll(e) ==
  {ScrollTo(e, rx) :
     rx \in IF e.cy < e.numrows THEN editorRowCxToRx(e.row[e.cy + 1], e.cx) ELSE {0}}

-----------------------------------------------------------------------------
(* input *)

\* Mutant: cx is not brought back into the row the cursor arrives on
editorMoveCursor_NoSnap(e, key) ==
  LET hasrow == e.cy < e.numrows
      size == IF hasrow THEN Len(e.row[e.cy + 1].chars) ELSE 0
  IN  CASE key = ARROW_LEFT ->
             IF e.cx # 0 THEN [e EXCEPT !.cx = @ - 1]
             ELSE IF e.cy > 0
                  THEN [e EXCEPT !.cy = @ - 1, !.cx = Len(e.row[e.cy].chars)]
                  ELSE e
        [] key = ARROW_RIGHT ->
             IF hasrow /\ e.cx < size THEN [e EXCEPT !.cx = @ + 1]
             ELSE IF hasrow /\ e.cx = size THEN [e EXCEPT !.cy = @ + 1, !.cx = 0]
                  ELSE e
        [] key = ARROW_UP ->
             IF e.cy # 0 THEN [e EXCEPT !.cy = @ - 1] ELSE e
        [] key = ARROW_DOWN ->
             IF e.cy < e.numrows THEN [e EXCEPT !.cy = @ + 1] ELSE e
        [] OTHER -> e

\* editorMoveCursor(key)
editorMoveCursor(e, key) ==
  LET hasrow == e.cy < e.numrows
      size == IF hasrow THEN Len(e.row[e.cy + 1].chars) ELSE 0
      e1 == CASE key = ARROW_LEFT ->
                   IF e.cx # 0 THEN [e EXCEPT !.cx = @ - 1]
                   ELSE IF e.cy > 0
                        THEN [e EXCEPT !.cy = @ - 1, !.cx = Len(e.row[e.cy].chars)]
                        ELSE e
              [] key = ARROW_RIGHT ->
                   IF hasrow /\ e.cx < size THEN [e EXCEPT !.cx = @ + 1]
                   ELSE IF hasrow /\ e.cx = size THEN [e EXCEPT !.cy = @ + 1, !.cx = 0]
                        ELSE e
              [] key = ARROW_UP ->
                   IF e.cy # 0 THEN [e EXCEPT !.cy = @ - 1] ELSE e
              [] key = ARROW_DOWN ->
                   IF e.cy < e.numrows THEN [e EXCEPT !.cy = @ + 1] ELSE e
              [] OTHER -> e
      rowlen == IF e1.cy >= e1.numrows THEN 0 ELSE Len(e1.row[e1.cy + 1].chars)
  IN  IF e1.cx > rowlen THEN [e1 EXCEPT !.cx = rowlen] ELSE e1

\* while (times--) editorMoveCursor(key)
RECURSIVE MoveCursorTimes(_, _, _)
MoveCursorTimes(e, key, times) ==
  IF times = 0 THEN e ELSE MoveCursorTimes(editorMoveCursor(e, key), key, times - 1)

-----------------------------------------------------------------------------
(* syntax selection and file i/o *)

\* strcmp(ext, pat) == 0 / strstr(filename, pat) != NULL in the test of
\* editorSelectSyntaxHighlight; the second operand of || indexes filematch
\* with the database index j, as the source does.
FileMatches(filename, j, i) ==
  LET s == HLDB[j + 1]
      pat == s.filematch[i + 1]
      is_ext == pat[1] = 46
      ext == strrchr(filename, 46)
  IN  \/ is_ext /\ ext # NULL /\ ext = pat
      \/ ~is_ext /\ strstr(filename, s.filematch[j + 1]) # -1

\* for (filerow = 0; filerow < E.numrows; filerow++) editorUpdateSyntax(...)
RECURSIVE RehighlightFrom(_, _)
RehighlightFrom(e, filerow) ==
  IF filerow >= e.numrows THEN e
  ELSE RehighlightFrom(editorUpdateSyntax(e, filerow), filerow + 1)

\* editorSelectSyntaxHighlight()
editorSelectSyntaxHighlight(e) ==
  LET e0 == [e EXCEPT !.syntax = 0]
      hits == IF e.filename = NULL THEN {}
              ELSE {j \in 0..(Len(HLDB) - 1) :
                      \E i \in 0..(Len(HLDB[j + 1].filematch) - 1) :
                        FileMatches(e.filename, j, i)}
  IN  IF hits = {} THEN e0
      ELSE RehighlightFrom(
             [e0 EXCEPT !.syntax = 1 + CHOOSE j \in hits : \A k \in hits : j <= k], 0)

\* initEditor()
initEditor ==
  [cx |-> 0, cy |-> 0, rx |-> 0, rowoff |-> 0, coloff |-> 0, numrows |-> 0,
   row |-> <<>>, dirty |-> 0, filename |-> NULL, syntax |-> 0]

\* editorOpen(filename) on a file whose lines, stripped of their line
\* ends, are `lines`
RECURSIVE InsertLines(_, _, _)
InsertLines(e, lines, k) ==
  IF k > Len(lines) THEN e
  ELSE InsertLines(editorInsertRow(e, e.numrows, lines[k]), lines, k + 1)

editorOpen(e, filename, lines) ==
  LET e1 == editorSelectSyntaxHighlight([e EXCEPT !.filename = filename])
  IN  [InsertLines(e1, lines, 1) EXCEPT !.dirty = 0]

\* editorRowsToString(): every row's chars followed by one LF
RECURSIVE RowsToString(_, _)
RowsToString(e, j) ==
  IF j > e.numrows THEN <<>>
  ELSE e.row[j].chars \o <<LF>> \o RowsToString(e, j + 1)

editorRowsToString(e) == RowsToString(e, 1)

\* The buffer length editorRowsToString() computes before it copies
RECURSIVE TotLen(_, _)
TotLen(e, j) == IF j > e.numrows THEN 0 ELSE Len(e.row[j].chars) + 1 + TotLen(e, j + 1)

\* getline(): the bytes up to and including the next LF, or what is left
\* of the file when it does not end with one
RECURSIVE LineEnd(_, _)
LineEnd(s, k) == IF k > Len(s) THEN Len(s) ELSE IF s[k] = LF THEN k ELSE LineEnd(s, k + 1)

RECURSIVE GetLines(_)
GetLines(s) ==
  IF s = <<>> THEN <<>>
  ELSE LET k == LineEnd(s, 1)
       IN  <<SubSeq(s, 1, k)>> \o GetLines(SubSeq(s, k + 1, Len(s)))

\* The loop of editorOpen() that drops the LF and CR bytes a line ends with
RECURSIVE StripLineEnd(_)
StripLineEnd(line) ==
  IF Len(line) > 0 /\ line[Len(line)] \in {LF, CR}
  THEN StripLineEnd(SubSeq(line, 1, Len(line) - 1))
  ELSE line

\* The rows editorOpen() builds from the bytes of a file
LoadLines(s) == [j \in 1..Len(GetLines(s)) |-> StripLineEnd(GetLines(s)[j])]

\* Mutant: a successful write leaves the dirty counter as it is
WriteFile_KeepsDirty(e, ok) == e

\* The tail of editorSave() once a filename is known: open, ftruncate and
\* write succeed (ok) or one of them fails.
WriteFile(e, ok) == IF ok THEN [e EXCEPT !.dirty = 0] ELSE e

-----------------------------------------------------------------------------
(* find *)

\* Mutant: the loop does not wrap at either end of the file
RECURSIVE FindLoop_NoWrap(_, _, _, _, _)
FindLoop_NoWrap(e, query, current, direction, i) ==
  IF i >= e.numrows THEN -1
  ELSE
    LET cur == current + direction
    IN  IF cur < 0 \/ cur >= e.numrows THEN -1
        ELSE IF strstr(e.row[cur + 1].render, query) # -1 THEN cur
        ELSE FindLoop_NoWrap(e, query, cur, direction, i + 1)

\* The for loop of editorFindCallback: the first row, in the order the loop
\* visits them, whose render contains query; -1 if the loop ends without one.
RECURSIVE FindLoop(_, _, _, _, _)
FindLoop(e, query, current, direction, i) ==
  IF i >= e.numrows THEN -1
  ELSE
    LET c1 == current + direction
        cur == IF c1 = -1 THEN e.numrows - 1
               ELSE IF c1 = e.numrows THEN 0 ELSE c1
    IN  IF strstr(e.row[cur + 1].render, query) # -1 THEN cur
        ELSE FindLoop(e, query, cur, direction, i + 1)

\* Mutant: E.rowoff = E.numrows is executed before the match is tested
editorFindCallback_ScrollsOnMiss(e, f, query, key) ==
  LET e0 == IF f.saved_hl # NULL
            THEN [e EXCEPT !.row[f.saved_hl_line + 1].hl = f.saved_hl]
            ELSE e
      f0 == [f EXCEPT !.saved_hl = NULL]
  IN
  IF key \in {CR, ESC}
  THEN [e |-> e0, f |-> [f0 EXCEPT !.last_match = -1, !.direction = 1]]
  ELSE
    LET f1 == IF key \in {ARROW_RIGHT, ARROW_DOWN} THEN [f0 EXCEPT !.direction = 1]
              ELSE IF key \in {ARROW_LEFT, ARROW_UP} THEN [f0 EXCEPT !.direction = -1]
              ELSE [f0 EXCEPT !.last_match = -1, !.direction = 1]
        f2 == IF f1.last_match = -1 THEN [f1 EXCEPT !.direction = 1] ELSE f1
        current == FindLoop(e0, query, f2.last_match, f2.direction, 0)
    IN
    IF current = -1 THEN [e |-> [e0 EXCEPT !.rowoff = e0.numrows], f |-> f2]
    ELSE
      LET row == e0.row[current + 1]
          match == strstr(row.render, query)
      IN  [e |-> [e0 EXCEPT !.cy = current,
                            !.cx = match,
                            !.rowoff = e0.numrows,
                            !.row[current + 1].hl = memset(row.hl, match, HL_MATCH, Len(query))],
           f |-> [f2 EXCEPT !.last_match = current,
                            !.saved_hl_line = current,
                            !.saved_hl = row.hl]]

\* Mutant: the saved highlight is dropped without being copied back
editorFindCallback_NoRestore(e, f, query, key) ==
  LET e0 == e
      f0 == [f EXCEPT !.saved_hl = NULL]
  IN
  IF key \in {CR, ESC}
  THEN [e |-> e0, f |-> [f0 EXCEPT !.last_match = -1, !.direction = 1]]
  ELSE
    LET f1 == IF key \in {ARROW_RIGHT, ARROW_DOWN} THEN [f0 EXCEPT !.direction = 1]
              ELSE IF key \in {ARROW_LEFT, ARROW_UP} THEN [f0 EXCEPT !.direction = -1]
              ELSE [f0 EXCEPT !.last_match = -1, !.direction = 1]
        f2 == IF f1.last_match = -1 THEN [f1 EXCEPT !.direction = 1] ELSE f1
        current == FindLoop(e0, query, f2.last_match, f2.direction, 0)
    IN
    IF current = -1 THEN [e |-> e0, f |-> f2]
    ELSE
      LET row == e0.row[current + 1]
          match == strstr(row.render, query)
      IN  [e |-> [e0 EXCEPT !.cy = current,
                            !.cx = match,
                            !.rowoff = e0.numrows,
                            !.row[current + 1].hl = memset(row.hl, match, HL_MATCH, Len(query))],
           f |-> [f2 EXCEPT !.last_match = current,
                            !.saved_hl_line = current,
                            !.saved_hl = row.hl]]

\* Mutant: a match counts as a change of the document
editorFindCallback_CountsMatch(e, f, query, key) ==
  LET e0 == IF f.saved_hl # NULL
            THEN [e EXCEPT !.row[f.saved_hl_line + 1].hl = f.saved_hl]
            ELSE e
      f0 == [f EXCEPT !.saved_hl = NULL]
  IN
  IF key \in {CR, ESC}
  THEN [e |-> e0, f |-> [f0 EXCEPT !.last_match = -1, !.direction = 1]]
  ELSE
    LET f1 == IF key \in {ARROW_RIGHT, ARROW_DOWN} THEN [f0 EXCEPT !.direction = 1]
              ELSE IF key \in {ARROW_LEFT, ARROW_UP} THEN [f0 EXCEPT !.direction = -1]
              ELSE [f0 EXCEPT !.last_match = -1, !.direction = 1]
        f2 == IF f1.last_match = -1 THEN [f1 EXCEPT !.direction = 1] ELSE f1
        current == FindLoop(e0, query, f2.last_match, f2.direction, 0)
    IN
    IF current = -1 THEN [e |-> e0, f |-> f2]
    ELSE
      LET row == e0.row[current + 1]
          match == strstr(row.render, query)
      IN  [e |-> [e0 EXCEPT !.dirty = @ + 1,
                            !.cy = current,
                            !.cx = match,
                            !.rowoff = e0.numrows,
                            !.row[current + 1].hl = memset(row.hl, match, HL_MATCH, Len(query))],
           f |-> [f2 EXCEPT !.last_match = current,
                            !.saved_hl_line = current,
                            !.saved_hl = row.hl]]

\* editorFindCallback(query, key); f holds its statics.
editorFindCallback(e, f, query, key) ==
  LET e0 == IF f.saved_hl # NULL
            THEN [e EXCEPT !.row[f.saved_hl_line + 1].hl = f.saved_hl]
            ELSE e
      f0 == [f EXCEPT !.saved_hl = NULL]
  IN
  IF key \in {CR, ESC}
  THEN [e |-> e0, f |-> [f0 EXCEPT !.last_match = -1, !.direction = 1]]
  ELSE
    LET f1 == IF key \in {ARROW_RIGHT, ARROW_DOWN} THEN [f0 EXCEPT !.direction = 1]
              ELSE IF key \in {ARROW_LEFT, ARROW_UP} THEN [f0 EXCEPT !.direction = -1]
              ELSE [f0 EXCEPT !.last_match = -1, !.direction = 1]
        f2 == IF f1.last_match = -1 THEN [f1 EXCEPT !.direction = 1] ELSE f1
        current == FindLoop(e0, query, f2.last_match, f2.direction, 0)
    IN
    IF current = -1 THEN [e |-> e0, f |-> f2]
    ELSE
      LET row == e0.row[current + 1]
          match == strstr(row.render, query)
      IN  [e |-> [e0 EXCEPT !.cy = current,
                            !.cx = match,
                            !.rowoff = e0.numrows,
                            !.row[current + 1].hl = memset(row.hl, match, HL_MATCH, Len(query))],
           f |-> [f2 EXCEPT !.last_match = current,
                            !.saved_hl_line = current,
                            !.saved_hl = row.hl]]

-----------------------------------------------------------------------------
(* prompt *)

\* The buffer of editorPrompt after key c
PromptBuf(b, c) ==
  IF c \in {DEL_KEY, CTRL_KEY(104), BACKSPACE}
  THEN (IF Len(b) # 0 THEN SubSeq(b, 1, Len(b) - 1) ELSE b)
  ELSE IF c # ESC /\ c # CR /\ ~iscntrl(c) /\ c < 128 THEN Append(b, c)
  ELSE b

\* Mutant: Enter returns the buffer whatever its length
PromptEnds_AnyEnter(b, c) == c = ESC \/ c = CR

\* Whether key c makes editorPrompt return (NULL on Escape, the buffer on
\* Enter with a non-empty buffer)
PromptEnds(b, c) == c = ESC \/ (c = CR /\ Len(b) # 0)

-----------------------------------------------------------------------------
(* init *)

\* The files main() may be started on (argv[1]); without an argument the
\* editor starts on an empty, unnamed document.
\*   "c.c":  //  |  /*  |  c
\*   "c":    <TAB>c  |  (empty line)  |  c*
StartFiles ==
  { [filename |-> <<99, 46, 99>>, lines |-> << <<47, 47>>, <<47, 42>>, <<99>> >>],
    [filename |-> <<99>>, lines |-> << <<TAB, 99>>, <<>>, <<99, 42>> >>] }

\*   "c":    <TAB>c
DeepFiles ==
  { [filename |-> <<99>>, lines |-> << <<TAB, 99>> >>] }

NoFind ==
  [last_match |-> -1, direction |-> 1, saved_hl_line |-> 0, saved_hl |-> NULL,
   saved_cx |-> 0, saved_cy |-> 0, saved_coloff |-> 0, saved_rowoff |-> 0]

None == [op |-> "none"]

\* main(): initEditor(), editorOpen(argv[1]) if there is an argument, the
\* help message, and the first refresh
InitOn(docs, inp, n) ==
  /\ \E e \in docs : E \in editorScroll(e)
  /\ quit_times = KILO_QUIT_TIMES
  /\ mode = "edit"
  /\ buf = <<>>
  /\ find = NoFind
  /\ statusmsg = "help"
  /\ input = inp
  /\ keysleft = n
  /\ last = None

\* Every key of TermInput, short runs, started without a file or on one
\* of StartFiles
Init ==
  InitOn({initEditor} \cup {editorOpen(initEditor, f.filename, f.lines) : f \in StartFiles},
         TermInput, MaxKeys)

\* The keys of NarrowInput, longer runs, started without a file or on one
\* of DeepFiles
InitDeep ==
  InitOn({initEditor} \cup {editorOpen(initEditor, f.filename, f.lines) : f \in DeepFiles},
         NarrowInput, MaxDeepKeys)

-----------------------------------------------------------------------------
(* editorProcessKeypress: one action per case of the switch.  Each action   *)
(* reads one key and runs the handler and the screen refresh after it.      *)

ReadKey(c) == keysleft > 0 /\ c \in Keys /\ keysleft' = keysleft - 1 /\ input' = input

Raw(e) == [j \in 1..e.numrows |-> e.row[j].chars]

Open(e) == [j \in 1..e.numrows |-> e.row[j].hl_open_comment]

Snapshot(op) ==
  [op |-> op, raw |-> Raw(E), open |-> Open(E), cx |-> E.cx, cy |-> E.cy,
   numrows |-> E.numrows]

Hl(e) == [j \in 1..e.numrows |-> e.row[j].hl]

\* What a search session starts from: the cursor, the scroll offsets and
\* every row's highlight
SearchStart ==
  [cx |-> E.cx, cy |-> E.cy, rowoff |-> E.rowoff, coloff |-> E.coloff, hl |-> Hl(E)]

\* How editorFindCallback reads a key of the prompt
KeyClass(c) ==
  IF c \in {ARROW_RIGHT, ARROW_DOWN} THEN "forward"
  ELSE IF c \in {ARROW_LEFT, ARROW_UP} THEN "backward"
  ELSE IF c = CR THEN "enter"
  ELSE "other"

\* case '\r'
KeyEnter ==
  /\ mode = "edit"
  /\ ReadKey(CR)
  /\ IF NewlineCrashes(E)
     THEN /\ mode' = "crash"
          /\ UNCHANGED <<E, quit_times, statusmsg>>
          /\ last' = None
     ELSE /\ E' \in editorScroll(editorInsertNewline(E))
          /\ quit_times' = KILO_QUIT_TIMES
          /\ last' = Snapshot("newline")
          /\ UNCHANGED <<mode, statusmsg>>
  /\ UNCHANGED <<buf, find>>

\* Mutant: the confirmation test is quit_times > 1
KeyQuit_OffByOne ==
  /\ mode = "edit"
  /\ ReadKey(CTRL_KEY(113))
  /\ IF E.dirty # 0 /\ quit_times > 1
     THEN /\ statusmsg' = "warning"
          /\ quit_times' = quit_times - 1
          /\ E' \in editorScroll(E)
          /\ UNCHANGED mode
     ELSE /\ mode' = "exit"
          /\ UNCHANGED <<E, quit_times, statusmsg>>
  /\ last' = [op |-> "quit", n |-> IF last.op = "quit" THEN last.n + 1 ELSE 1,
              saved |-> last.op = "save" /\ last.ok /\ last.after = "quit"]
  /\ UNCHANGED <<buf, find>>

\* Mutant: the warning branch ends in break, not return, so the counter is
\* reset after every warning
KeyQuit_BreakAfterWarning ==
  /\ mode = "edit"
  /\ ReadKey(CTRL_KEY(113))
  /\ IF E.dirty # 0 /\ quit_times > 0
     THEN /\ statusmsg' = "warning"
          /\ quit_times' = KILO_QUIT_TIMES
          /\ E' \in editorScroll(E)
          /\ UNCHANGED mode
     ELSE /\ mode' = "exit"
          /\ UNCHANGED <<E, quit_times, statusmsg>>
  /\ last' = [op |-> "quit", n |-> IF last.op = "quit" THEN last.n + 1 ELSE 1,
              saved |-> last.op = "save" /\ last.ok /\ last.after = "quit"]
  /\ UNCHANGED <<buf, find>>

\* Mutant: the warning is shown whether or not there are unsaved changes
KeyQuit_IgnoresDirty ==
  /\ mode = "edit"
  /\ ReadKey(CTRL_KEY(113))
  /\ IF quit_times > 0
     THEN /\ statusmsg' = "warning"
          /\ quit_times' = quit_times - 1
          /\ E' \in editorScroll(E)
          /\ UNCHANGED mode
     ELSE /\ mode' = "exit"
          /\ UNCHANGED <<E, quit_times, statusmsg>>
  /\ last' = [op |-> "quit", n |-> IF last.op = "quit" THEN last.n + 1 ELSE 1,
              saved |-> last.op = "save" /\ last.ok /\ last.after = "quit"]
  /\ UNCHANGED <<buf, find>>

\* case CTRL_KEY('q')
KeyQuit ==
  /\ mode = "edit"
  /\ ReadKey(CTRL_KEY(113))
  /\ IF E.dirty # 0 /\ quit_times > 0
     THEN /\ statusmsg' = "warning"
          /\ quit_times' = quit_times - 1
          /\ E' \in editorScroll(E)
          /\ UNCHANGED mode
     ELSE /\ mode' = "exit"
          /\ UNCHANGED <<E, quit_times, statusmsg>>
  /\ last' = [op |-> "quit", n |-> IF last.op = "quit" THEN last.n + 1 ELSE 1,
              saved |-> last.op = "save" /\ last.ok /\ last.after = "quit"]
  /\ UNCHANGED <<buf, find>>

\* case CTRL_KEY('s'): editorSave() with a filename writes the file; without
\* one it starts the "Save as" prompt.
KeySave ==
  /\ mode = "edit"
  /\ ReadKey(CTRL_KEY(115))
  /\ IF E.filename = NULL
     THEN /\ mode' = "saveas"
          /\ buf' = <<>>
          /\ statusmsg' = "prompt"
          /\ E' \in editorScroll(E)
          /\ UNCHANGED quit_times
          /\ last' = None
     ELSE /\ \E ok \in BOOLEAN :
               /\ E' \in editorScroll(WriteFile(E, ok))
               /\ statusmsg' = IF ok THEN "written" ELSE "ioerror"
               /\ last' = [op |-> "save", ok |-> ok, prompted |-> FALSE, after |-> last.op]
          /\ quit_times' = KILO_QUIT_TIMES
          /\ UNCHANGED <<mode, buf>>
  /\ UNCHANGED find

\* case HOME_KEY
KeyHome ==
  /\ mode = "edit"
  /\ ReadKey(HOME_KEY)
  /\ E' \in editorScroll([E EXCEPT !.cx = 0])
  /\ quit_times' = KILO_QUIT_TIMES
  /\ last' = None
  /\ UNCHANGED <<mode, buf, find, statusmsg>>

\* case END_KEY
KeyEnd ==
  /\ mode = "edit"
  /\ ReadKey(END_KEY)
  /\ E' \in editorScroll(IF E.cy < E.numrows
                         THEN [E EXCEPT !.cx = Len(E.row[E.cy + 1].chars)]
                         ELSE E)
  /\ quit_times' = KILO_QUIT_TIMES
  /\ last' = None
  /\ UNCHANGED <<mode, buf, find, statusmsg>>

\* case CTRL_KEY('f'): editorFind() saves the cursor and starts the prompt
KeyFind ==
  /\ mode = "edit"
  /\ ReadKey(CTRL_KEY(102))
  /\ mode' = "find"
  /\ buf' = <<>>
  /\ find' = [find EXCEPT !.saved_cx = E.cx, !.saved_cy = E.cy,
                          !.saved_coloff = E.coloff, !.saved_rowoff = E.rowoff]
  /\ statusmsg' = "prompt"
  /\ E' \in editorScroll(E)
  /\ last' = [op |-> "find", key |-> "start", found |-> FALSE, start |-> SearchStart,
              from |-> -1]
  /\ UNCHANGED quit_times

\* case BACKSPACE: case CTRL_KEY('h'): case DEL_KEY
KeyDelete ==
  /\ mode = "edit"
  /\ \E c \in {BACKSPACE, CTRL_KEY(104), DEL_KEY} :
       /\ ReadKey(c)
       /\ E' \in editorScroll(editorDelChar(IF c = DEL_KEY
                                            THEN editorMoveCursor(E, ARROW_RIGHT)
                                            ELSE E))
  /\ quit_times' = KILO_QUIT_TIMES
  /\ last' = [op |-> "delete", after |-> last.op]
  /\ UNCHANGED <<mode, buf, find, statusmsg>>

\* case PAGE_UP: case PAGE_DOWN
KeyPage ==
  /\ mode = "edit"
  /\ \E c \in {PAGE_UP, PAGE_DOWN} :
       /\ ReadKey(c)
       /\ LET cy == IF c = PAGE_UP THEN E.rowoff
                    ELSE IF E.rowoff + ScreenRows - 1 > E.numrows THEN E.numrows
                    ELSE E.rowoff + ScreenRows - 1
          IN  E' \in editorScroll(
                       MoveCursorTimes([E EXCEPT !.cy = cy],
                                       IF c = PAGE_UP THEN ARROW_UP ELSE ARROW_DOWN,
                                       ScreenRows))
  /\ quit_times' = KILO_QUIT_TIMES
  /\ last' = None
  /\ UNCHANGED <<mode, buf, find, statusmsg>>

\* case ARROW_UP: case ARROW_DOWN: case ARROW_LEFT: case ARROW_RIGHT
KeyArrow ==
  /\ mode = "edit"
  /\ \E c \in {ARROW_UP, ARROW_DOWN, ARROW_LEFT, ARROW_RIGHT} :
       /\ ReadKey(c)
       /\ E' \in editorScroll(editorMoveCursor(E, c))
  /\ quit_times' = KILO_QUIT_TIMES
  /\ last' = None
  /\ UNCHANGED <<mode, buf, find, statusmsg>>

\* Mutant: the refresh case returns before quit_times is reset
KeyRefresh_NoReset ==
  /\ mode = "edit"
  /\ \E c \in {CTRL_KEY(108), ESC} : ReadKey(c)
  /\ E' \in editorScroll(E)
  /\ last' = None
  /\ UNCHANGED <<mode, buf, find, statusmsg, quit_times>>

\* case CTRL_KEY('l'): case '\x1b'
KeyRefresh ==
  /\ mode = "edit"
  /\ \E c \in {CTRL_KEY(108), ESC} : ReadKey(c)
  /\ E' \in editorScroll(E)
  /\ quit_times' = KILO_QUIT_TIMES
  /\ last' = None
  /\ UNCHANGED <<mode, buf, find, statusmsg>>

\* default: every other key is inserted as a character
SwitchCases ==
  {CR, CTRL_KEY(113), CTRL_KEY(115), HOME_KEY, END_KEY, CTRL_KEY(102),
   BACKSPACE, CTRL_KEY(104), DEL_KEY, PAGE_UP, PAGE_DOWN,
   ARROW_UP, ARROW_DOWN, ARROW_LEFT, ARROW_RIGHT, CTRL_KEY(108), ESC}

KeyChar ==
  /\ mode = "edit"
  /\ \E c \in Keys \ SwitchCases :
       /\ ReadKey(c)
       /\ E' \in editorScroll(editorInsertChar(E, c))
       /\ last' = Snapshot("char") @@ [key |-> c]
  /\ quit_times' = KILO_QUIT_TIMES
  /\ UNCHANGED <<mode, buf, find, statusmsg>>

-----------------------------------------------------------------------------
(* editorPrompt under editorFind: one key of the "Search:" prompt *)

\* A key that does not end the prompt: the buffer is edited and the
\* callback runs the match step.
FindStep ==
  /\ mode = "find"
  /\ \E c \in Keys :
       /\ ReadKey(c)
       /\ ~PromptEnds(buf, c)
       /\ buf' = PromptBuf(buf, c)
       /\ LET r == editorFindCallback(E, find, PromptBuf(buf, c), c)
          IN  /\ E' \in editorScroll(r.e)
              /\ find' = r.f
              /\ last' = [op |-> "find", key |-> KeyClass(c),
                          found |-> r.f.saved_hl # NULL, start |-> last.start,
                          from |-> IF KeyClass(c) \in {"forward", "backward"}
                                   THEN find.last_match ELSE -1,
                          kept |-> r.e.rowoff = E.rowoff /\ r.e.coloff = E.coloff]
  /\ statusmsg' = "prompt"
  /\ UNCHANGED <<mode, quit_times>>

\* Enter with a non-empty buffer: the callback, then editorFind frees the
\* query and editorProcessKeypress resets quit_times.
FindEnter ==
  /\ mode = "find"
  /\ ReadKey(CR)
  /\ PromptEnds(buf, CR)
  /\ LET r == editorFindCallback(E, find, buf, CR)
     IN  /\ E' \in editorScroll(r.e)
         /\ find' = [r.f EXCEPT !.saved_cx = 0, !.saved_cy = 0,
                                !.saved_coloff = 0, !.saved_rowoff = 0]
  /\ mode' = "edit"
  /\ buf' = <<>>
  /\ statusmsg' = ""
  /\ quit_times' = KILO_QUIT_TIMES
  /\ last' = [op |-> "find_enter", start |-> last.start]

\* Mutant: editorFind puts back the cursor but not the scroll offsets
FindEscape_CursorOnly ==
  /\ mode = "find"
  /\ ReadKey(ESC)
  /\ LET r == editorFindCallback(E, find, buf, ESC)
     IN  /\ E' \in editorScroll([r.e EXCEPT !.cx = find.saved_cx,
                                            !.cy = find.saved_cy])
         /\ find' = [r.f EXCEPT !.saved_cx = 0, !.saved_cy = 0,
                                !.saved_coloff = 0, !.saved_rowoff = 0]
         /\ last' = [op |-> "find_escape", start |-> last.start,
                     moved |-> E.cx # find.saved_cx \/ E.cy # find.saved_cy,
                     rowoff |-> r.e.rowoff, coloff |-> r.e.coloff]
  /\ mode' = "edit"
  /\ buf' = <<>>
  /\ statusmsg' = ""
  /\ quit_times' = KILO_QUIT_TIMES

\* Escape: the callback, then editorFind puts the saved cursor and scroll
\* offsets back.
FindEscape ==
  /\ mode = "find"
  /\ ReadKey(ESC)
  /\ LET r == editorFindCallback(E, find, buf, ESC)
     IN  /\ E' \in editorScroll([r.e EXCEPT !.cx = find.saved_cx,
                                            !.cy = find.saved_cy,
                                            !.coloff = find.saved_coloff,
                                            !.rowoff = find.saved_rowoff])
         /\ find' = [r.f EXCEPT !.saved_cx = 0, !.saved_cy = 0,
                                !.saved_coloff = 0, !.saved_rowoff = 0]
  /\ mode' = "edit"
  /\ buf' = <<>>
  /\ statusmsg' = ""
  /\ quit_times' = KILO_QUIT_TIMES
  /\ last' = [op |-> "find_escape", start |-> last.start,
              moved |-> E.cx # find.saved_cx \/ E.cy # find.saved_cy,
              rowoff |-> find.saved_rowoff, coloff |-> find.saved_coloff]

-----------------------------------------------------------------------------
(* editorPrompt under editorSave: one key of the "Save as:" prompt *)

SaveAsType ==
  /\ mode = "saveas"
  /\ \E c \in Keys :
       /\ ReadKey(c)
       /\ ~PromptEnds(buf, c)
       /\ buf' = PromptBuf(buf, c)
  /\ E' \in editorScroll(E)
  /\ statusmsg' = "prompt"
  /\ last' = None
  /\ UNCHANGED <<mode, quit_times, find>>

\* Escape: editorPrompt returns NULL, editorSave reports "Save aborted"
SaveAsEscape ==
  /\ mode = "saveas"
  /\ ReadKey(ESC)
  /\ E' \in editorScroll(E)
  /\ mode' = "edit"
  /\ buf' = <<>>
  /\ statusmsg' = "aborted"
  /\ quit_times' = KILO_QUIT_TIMES
  /\ last' = None
  /\ UNCHANGED find

\* Enter with a non-empty buffer: the buffer becomes the filename, the
\* syntax is selected for it, and the file is written or the write fails.
SaveAsEnter ==
  /\ mode = "saveas"
  /\ ReadKey(CR)
  /\ PromptEnds(buf, CR)
  /\ \E ok \in BOOLEAN :
       /\ E' \in editorScroll(
                   WriteFile(editorSelectSyntaxHighlight([E EXCEPT !.filename = buf]), ok))
       /\ statusmsg' = IF ok THEN "written" ELSE "ioerror"
       /\ last' = [op |-> "save", ok |-> ok, prompted |-> TRUE, after |-> last.op]
  /\ mode' = "edit"
  /\ buf' = <<>>
  /\ quit_times' = KILO_QUIT_TIMES
  /\ UNCHANGED find

-----------------------------------------------------------------------------

Next ==
  \/ KeyEnter
  \/ KeyQuit
  \/ KeySave
  \/ KeyHome
  \/ KeyEnd
  \/ KeyFind
  \/ KeyDelete
  \/ KeyPage
  \/ KeyArrow
  \/ KeyRefresh
  \/ KeyChar
  \/ FindStep
  \/ FindEnter
  \/ FindEscape
  \/ SaveAsType
  \/ SaveAsEscape
  \/ SaveAsEnter

Spec == Init /\ [][Next]_vars

SpecDeep == InitDeep /\ [][Next]_vars

-----------------------------------------------------------------------------
(* The row functions on their own: main() started on a file "c.c" of one    *)
(* line, the line made of at most MaxTokens of RowTokens; once the line is  *)
(* a row, the column conversions are applied to it.                         *)

\* "\t", " ", "int", "X", "x", "i"
RowTokens == { <<TAB>>, <<32>>, <<105, 110, 116>>, <<88>>, <<120>>, <<105>> }

RECURSIVE Concat(_)
Concat(ts) == IF ts = <<>> THEN <<>> ELSE Head(ts) \o Concat(Tail(ts))

RowLines == {Concat(ts) : ts \in UNION {[1..n -> RowTokens] : n \in 0..MaxTokens}}

\* editorOpen() before its getline loop: the filename is stored, the syntax
\* selected, and buf holds the line getline will deliver
InitRow ==
  /\ E = editorSelectSyntaxHighlight([initEditor EXCEPT !.filename = <<99, 46, 99>>])
  /\ buf \in RowLines
  /\ mode = "open"
  /\ quit_times = KILO_QUIT_TIMES
  /\ find = NoFind
  /\ statusmsg = ""
  /\ input = {}
  /\ keysleft = 0
  /\ last = None

\* editorOpen(): editorInsertRow(E.numrows, line, linelen), E.dirty = 0;
\* then main() sets the help message and refreshes the screen
OpenLine ==
  /\ mode = "open"
  /\ E' \in editorScroll([editorInsertRow(E, E.numrows, buf) EXCEPT !.dirty = 0])
  /\ buf' = <<>>
  /\ mode' = "row"
  /\ statusmsg' = "help"
  /\ UNCHANGED <<quit_times, find, input, keysleft, last>>

\* editorRowCxToRx(&E.row[0], cx) for a cx inside the row
ApplyCxToRx ==
  /\ mode = "row"
  /\ \E cx \in 0..Len(E.row[1].chars) :
       \E rx \in editorRowCxToRx(E.row[1], cx) :
         last' = [op |-> "cx_to_rx", cx |-> cx, rx |-> rx]
  /\ UNCHANGED <<E, quit_times, mode, buf, find, statusmsg, input, keysleft>>

\* editorRowRxToCx(&E.row[0], rx) for a render column rx, the columns
\* right of the row included
ApplyRxToCx ==
  /\ mode = "row"
  /\ \E rx \in 0..(Len(E.row[1].render) + 1) :
       last' = [op |-> "rx_to_cx", rx |-> rx, cx |-> editorRowRxToCx(E.row[1], rx)]
  /\ UNCHANGED <<E, quit_times, mode, buf, find, statusmsg, input, keysleft>>

NextRow ==
  \/ OpenLine
  \/ ApplyCxToRx
  \/ ApplyRxToCx

SpecRow == InitRow /\ [][NextRow]_vars

-----------------------------------------------------------------------------
(* The key decoder on its own: one call of editorReadKey() on a terminal    *)
(* whose next MaxReads reads give any results of ReadResults.               *)

\* ESC, '[', 'O', '~', the digits 0 1 3 4 5 6 7 8, the letters A B C D F H,
\* 'c', a byte above 127, and the two results that are not a byte
ReadResults ==
  {ESC, 91, 79, 126} \cup {48, 49, 51, 52, 53, 54, 55, 56}
  \cup {65, 66, 67, 68, 70, 72} \cup {99, 233} \cup {NoData, ReadError}

\* main() has refreshed the screen and calls editorReadKey(); buf holds
\* what the coming reads will give
InitKey ==
  /\ E \in editorScroll(initEditor)
  /\ buf \in [1..MaxReads -> ReadResults]
  /\ mode = "read"
  /\ quit_times = KILO_QUIT_TIMES
  /\ find = NoFind
  /\ statusmsg = "help"
  /\ input = {}
  /\ keysleft = 0
  /\ last = None

\* editorReadKey(): a key comes back, or die() has called exit(1), or the
\* call is still in its while loop
CallReadKey ==
  /\ mode = "read"
  /\ LET r == ReadKeyCall(buf)
     IN  /\ last' = [op |-> "readkey", out |-> r.out, key |-> r.key, reads |-> r.reads]
         /\ mode' = CASE r.out = "key" -> "key"
                      [] r.out = "die" -> "exit"
                      [] r.out = "poll" -> "poll"
  /\ UNCHANGED <<E, quit_times, buf, find, statusmsg, input, keysleft>>

NextKey == CallReadKey

SpecKey == InitKey /\ [][NextKey]_vars

-----------------------------------------------------------------------------
(* The scroll arithmetic on its own: a key handler has left the cursor      *)
(* anywhere in a document and the window anywhere over it, and              *)
(* editorRefreshScreen() draws.                                            *)

\* The longest render of a document
RECURSIVE MaxRender(_, _)
MaxRender(e, j) ==
  IF j > e.numrows THEN 0
  ELSE LET m == MaxRender(e, j + 1)
       IN  IF Len(e.row[j].render) > m THEN Len(e.row[j].render) ELSE m

\* A document with the cursor on any row or on the line after the last,
\* at any column up to the longest render (a search leaves cx as a render
\* column), and both offsets anywhere from 0 to the document's extent
BeforeDraw(e) ==
  {[e EXCEPT !.cy = cy, !.cx = cx, !.rowoff = ro, !.coloff = co] :
     cy \in 0..e.numrows, cx \in 0..MaxRender(e, 1),
     ro \in 0..e.numrows, co \in 0..MaxRender(e, 1)}

InitScroll ==
  /\ \E d \in {initEditor} \cup {editorOpen(initEditor, f.filename, f.lines) : f \in StartFiles} :
       E \in BeforeDraw(d)
  /\ mode = "draw"
  /\ quit_times = KILO_QUIT_TIMES
  /\ buf = <<>>
  /\ find = NoFind
  /\ statusmsg = "help"
  /\ input = {}
  /\ keysleft = 0
  /\ last = None

\* editorRefreshScreen(): editorScroll(), then the screen is written
Draw ==
  /\ mode = "draw"
  /\ E' \in editorScroll(E)
  /\ mode' = "drawn"
  /\ last' = [op |-> "scroll", rowoff |-> E.rowoff, coloff |-> E.coloff]
  /\ UNCHANGED <<quit_times, buf, find, statusmsg, input, keysleft>>

NextScroll == Draw

SpecScroll == InitScroll /\ [][NextScroll]_vars

-----------------------------------------------------------------------------
(* A line of comment markers and quotes is loaded into a C file, on its own *)
(* or after a row that leaves a block comment open.                         *)

\* '/', '*', '"', '\', 'c'
CommentBytes == {47, 42, 34, 92, 99}

CommentLines == UNION {[1..n -> CommentBytes] : n \in 0..MaxLineLen}

\* editorOpen() before getline delivers buf, with no row yet or with the
\* row "/*" already loaded
InitComment ==
  /\ LET e == editorSelectSyntaxHighlight([initEditor EXCEPT !.filename = <<99, 46, 99>>])
     IN  E \in {e, editorInsertRow(e, 0, <<47, 42>>)}
  /\ buf \in CommentLines
  /\ mode = "open"
  /\ quit_times = KILO_QUIT_TIMES
  /\ find = NoFind
  /\ statusmsg = ""
  /\ input = {}
  /\ keysleft = 0
  /\ last = None

NextComment == OpenLine

SpecComment == InitComment /\ [][NextComment]_vars

-----------------------------------------------------------------------------
(* A line holding one word between separators is loaded into a C file *)

\* switch if while for break continue return else struct union typedef static enum class case
PrimaryWords ==
  {<<115, 119, 105, 116, 99, 104>>, <<105, 102>>,
   <<119, 104, 105, 108, 101>>, <<102, 111, 114>>,
   <<98, 114, 101, 97, 107>>, <<99, 111, 110, 116, 105, 110, 117, 101>>,
   <<114, 101, 116, 117, 114, 110>>, <<101, 108, 115, 101>>,
   <<115, 116, 114, 117, 99, 116>>, <<117, 110, 105, 111, 110>>,
   <<116, 121, 112, 101, 100, 101, 102>>, <<115, 116, 97, 116, 105, 99>>,
   <<101, 110, 117, 109>>, <<99, 108, 97, 115, 115>>,
   <<99, 97, 115, 101>>}

\* int long double float char unsigned signed void
SecondaryWords ==
  {<<105, 110, 116>>, <<108, 111, 110, 103>>,
   <<100, 111, 117, 98, 108, 101>>, <<102, 108, 111, 97, 116>>,
   <<99, 104, 97, 114>>, <<117, 110, 115, 105, 103, 110, 101, 100>>,
   <<115, 105, 103, 110, 101, 100>>, <<118, 111, 105, 100>>}

\* "elsestruct", the table entry the two adjacent literals form
ElseStruct == <<101, 108, 115, 101, 115, 116, 114, 117, 99, 116>>

\* What may stand before and after the word: nothing, a space, '(' before
\* and ';' after
Before == {<<>>, <<32>>, <<40>>}
After == {<<>>, <<32>>, <<59>>}

WordLines ==
  {pre \o w \o post :
     pre \in Before, w \in PrimaryWords \cup SecondaryWords \cup {ElseStruct}, post \in After}

InitWord ==
  /\ E = editorSelectSyntaxHighlight([initEditor EXCEPT !.filename = <<99, 46, 99>>])
  /\ buf \in WordLines
  /\ mode = "open"
  /\ quit_times = KILO_QUIT_TIMES
  /\ find = NoFind
  /\ statusmsg = ""
  /\ input = {}
  /\ keysleft = 0
  /\ last = None

NextWord == OpenLine

SpecWord == InitWord /\ [][NextWord]_vars

-----------------------------------------------------------------------------
(* editorInsertRow() and editorDelRow() called with any position *)

\* The text given to editorInsertRow(): empty, "c", "/*"
RowContents == {<<>>, <<99>>, <<47, 42>>}

InitRows ==
  /\ E \in {initEditor} \cup {editorOpen(initEditor, f.filename, f.lines) : f \in StartFiles}
  /\ mode = "rows"
  /\ quit_times = KILO_QUIT_TIMES
  /\ buf = <<>>
  /\ find = NoFind
  /\ statusmsg = "help"
  /\ input = {}
  /\ keysleft = MaxRowOps
  /\ last = None

\* editorInsertRow(at, s, len) with at from one before the first row to one
\* after the position that appends
CallInsertRow ==
  /\ mode = "rows" /\ keysleft > 0
  /\ \E at \in -1..(E.numrows + 1), s \in RowContents :
       /\ E' = editorInsertRow(E, at, s)
       /\ last' = [op |-> "insert_row", at |-> at]
  /\ keysleft' = keysleft - 1
  /\ UNCHANGED <<quit_times, mode, buf, find, statusmsg, input>>

\* editorDelRow(at) with at from one before the first row to one after the
\* last
CallDelRow ==
  /\ mode = "rows" /\ keysleft > 0
  /\ \E at \in -1..E.numrows :
       /\ E' = editorDelRow(E, at)
       /\ last' = [op |-> "del_row", at |-> at]
  /\ keysleft' = keysleft - 1
  /\ UNCHANGED <<quit_times, mode, buf, find, statusmsg, input>>

NextRows == CallInsertRow \/ CallDelRow

SpecRows == InitRows /\ [][NextRows]_vars

-----------------------------------------------------------------------------
(* editorUpdateSyntax() called after a row changed *)

\* Rows of a C file: block comment start, block comment end, a word
CascadeRows == {<<47, 42>>, <<42, 47>>, <<99>>}

\* Files "c.c" of one to three of these rows
CascadeFiles ==
  {[filename |-> <<99, 46, 99>>, lines |-> l] :
     l \in UNION {[1..n -> CascadeRows] : n \in 1..3}}

InitCascade ==
  /\ E \in {editorOpen(initEditor, f.filename, f.lines) : f \in CascadeFiles}
  /\ mode = "update"
  /\ quit_times = KILO_QUIT_TIMES
  /\ buf = <<>>
  /\ find = NoFind
  /\ statusmsg = "help"
  /\ input = {}
  /\ keysleft = MaxUpdates
  /\ last = None

\* A row's chars are changed and editorUpdateRow() is called on it, as
\* editorRowInsertChar, editorRowAppendString and editorRowDelChar do
ChangeRow ==
  /\ mode = "update" /\ keysleft > 0
  /\ \E p \in 0..(E.numrows - 1), s \in CascadeRows :
       LET e1 == [E EXCEPT !.row[p + 1].chars = s]
       IN  /\ E' = editorUpdateRow(e1, p)
           /\ last' = [op |-> "update", at |-> p,
                       calls |-> SyntaxCalls(editorUpdateRow_NoSyntax(e1, p), p)]
  /\ keysleft' = keysleft - 1
  /\ UNCHANGED <<quit_times, mode, buf, find, statusmsg, input>>

\* editorInsertRow(at, s, len), whose editorUpdateRow() highlights the new
\* row
InsertRowUpdate ==
  /\ mode = "update" /\ keysleft > 0
  /\ \E at \in 0..E.numrows, s \in CascadeRows :
       /\ E' = editorInsertRow(E, at, s)
       /\ last' = [op |-> "update", at |-> at,
                   calls |-> SyntaxCalls(editorUpdateRow_NoSyntax(RowInserted(E, at, s), at), at)]
  /\ keysleft' = keysleft - 1
  /\ UNCHANGED <<quit_times, mode, buf, find, statusmsg, input>>

NextCascade == ChangeRow \/ InsertRowUpdate

SpecCascade == InitCascade /\ [][NextCascade]_vars

\* The shape of every state
TypeOK ==
  /\ mode \in {"edit", "find", "saveas", "exit", "crash", "open", "row",
               "read", "key", "poll", "draw", "drawn", "rows", "update"}
  /\ quit_times \in 0..KILO_QUIT_TIMES
  /\ keysleft \in 0..(MaxKeys + MaxDeepKeys)
  /\ last.op \in {"none", "char", "newline", "delete", "quit", "cx_to_rx", "rx_to_cx",
                "find", "find_enter", "find_escape", "readkey", "scroll", "save",
                "insert_row", "del_row", "update"}
  /\ E.numrows = Len(E.row)
  /\ E.dirty >= 0

-----------------------------------------------------------------------------
(* Properties *)

Size(e, j) == Len(e.row[j + 1].chars)

\* A key was read and handled in this step
KeyStep == keysleft' < keysleft

\* C1: after any sequence of dispatched keys every row's highlight array is
\* as long as its render, the rows redone by the cascade included.
C1_RenderHlSameLength ==
  \A j \in 1..Len(E.row) : Len(E.row[j].hl) = Len(E.row[j].render)

\* A character was typed with a syntax selected, and the cascade changed the
\* open-comment state of a non-empty row below the edited one.
C1_Witness ==
  /\ last.op = "char"
  /\ E.syntax # 0
  /\ \E j \in 1..E.numrows :
       /\ j > last.cy + 1
       /\ j <= last.numrows
       /\ E.row[j].hl_open_comment # last.open[j]
       /\ Len(E.row[j].render) > 0
       /\ Len(E.row[j].hl) = Len(E.row[j].render)

\* C2: between key dispatches 0 <= cy <= numrows, and 0 <= cx <= the size
\* of row cy whenever cy is a row.
C2_CursorInRow ==
  mode = "edit" =>
    /\ 0 <= E.cy /\ E.cy <= E.numrows
    /\ E.cy < E.numrows => (0 <= E.cx /\ E.cx <= Size(E, E.cy))

\* What editorUpdateSyntax computes now for row j (C index) from its render
\* and the open-comment flag of the row before it
HighlightNow(e, j) ==
  ScanRow(HLDB[e.syntax], e.row[j + 1].render,
          [k \in 1..Len(e.row[j + 1].render) |-> HL_NORMAL], 0, TRUE, 0,
          j > 0 /\ e.row[j].hl_open_comment)

\* C3: with a syntax selected and no search running, every row's highlight
\* and open-comment flag are what highlighting the row now would give.
C3_HighlightCurrent ==
  (mode = "edit" /\ E.syntax # 0) =>
    \A j \in 0..(E.numrows - 1) :
      /\ E.row[j + 1].hl = HighlightNow(E, j).hl
      /\ E.row[j + 1].hl_open_comment = HighlightNow(E, j).in_comment

\* C4 as claimed: with unsaved edits the process exits on the
\* KILO_QUIT_TIMES-th consecutive press of the quit key and on no other.
C4_ExitOnQuitTimesPress ==
  [][(last'.op = "quit" /\ E.dirty # 0) =>
       (mode' = "exit" <=> last'.n = KILO_QUIT_TIMES)]_vars

\* C4 as amended: with unsaved edits the process exits on consecutive press
\* number KILO_QUIT_TIMES + 1 of the quit key and on no earlier press.
C4_ExitAfterQuitTimesWarnings ==
  [][(last'.op = "quit" /\ E.dirty # 0) =>
       (mode' = "exit" <=> last'.n = KILO_QUIT_TIMES + 1)]_vars

C4_Witness ==
  mode = "exit" /\ E.dirty # 0 /\ last.op = "quit" /\ last.n = KILO_QUIT_TIMES + 1

\* C5: with unsaved edits the first press of the quit key only shows the
\* warning, the second does not exit either, the third exits.
C5_ThirdQuitExits ==
  [][(last'.op = "quit" /\ E.dirty # 0) =>
       /\ last'.n = 1 => (mode' = "edit" /\ statusmsg' = "warning" /\ E'.row = E.row)
       /\ last'.n = 2 => mode' = "edit"
       /\ last'.n = 3 => mode' = "exit"]_vars

C5_Witness ==
  mode = "exit" /\ E.dirty # 0 /\ last.op = "quit" /\ last.n = 3 /\ statusmsg = "warning"

\* C6: with unsaved edits, when the dispatch of any key other than the quit
\* key has completed, quit_times is KILO_QUIT_TIMES again.
C6_OtherKeyResets ==
  [][(E.dirty # 0 /\ KeyStep /\ mode' = "edit" /\ last'.op # "quit") =>
       quit_times' = KILO_QUIT_TIMES]_vars

\* The warning of an earlier quit press is still shown, another key has been
\* handled since, and the counter is back at KILO_QUIT_TIMES.
C6_Witness ==
  /\ mode = "edit" /\ E.dirty # 0
  /\ statusmsg = "warning" /\ last.op = "none"
  /\ quit_times = KILO_QUIT_TIMES

\* C7: a typed character followed at once by Backspace, with the cursor on
\* an existing row, gives back the rows, the row count and the cursor.
C7_InsertDeleteRestores ==
  [][(last.op = "char" /\ last.cy < last.numrows /\ last'.op = "delete") =>
       /\ Raw(E') = last.raw
       /\ E'.numrows = last.numrows
       /\ E'.cx = last.cx /\ E'.cy = last.cy]_vars

\* The same with the cursor inside the row (cx <= size) when the character
\* is typed
C7_InsertDeleteRestoresInRow ==
  [][(/\ last.op = "char" /\ last.cy < last.numrows
      /\ last.cx <= Len(last.raw[last.cy + 1])
      /\ last'.op = "delete") =>
       /\ Raw(E') = last.raw
       /\ E'.numrows = last.numrows
       /\ E'.cx = last.cx /\ E'.cy = last.cy]_vars

\* C8: Enter on an existing row at a column k in [0, size], followed at once
\* by Backspace, gives back all rows, the row count and the cursor (cy, k).
C8_SplitJoinRestores ==
  [][(/\ last.op = "newline" /\ last.cy < last.numrows
      /\ last.cx <= Len(last.raw[last.cy + 1])
      /\ last'.op = "delete") =>
       /\ Raw(E') = last.raw
       /\ E'.numrows = last.numrows
       /\ E'.cx = last.cx /\ E'.cy = last.cy]_vars

\* A row was split inside and joined again
C8_Witness ==
  /\ last.op = "delete" /\ last.after = "newline"
  /\ E.cy < E.numrows
  /\ 0 < E.cx /\ E.cx < Size(E, E.cy)

\* The rows after Enter at (cy, cx), as C9 states them
RowsAfterNewline(raw, cy, cx) ==
  [j \in 1..(Len(raw) + 1) |->
     IF j <= cy THEN raw[j]
     ELSE IF j = cy + 1 THEN (IF cx = 0 THEN <<>> ELSE SubSeq(raw[cy + 1], 1, cx))
     ELSE IF j = cy + 2
          THEN (IF cx = 0 THEN raw[cy + 1]
                ELSE SubSeq(raw[cy + 1], cx + 1, Len(raw[cy + 1])))
     ELSE raw[j - 1]]

\* C9: Enter on an existing row adds exactly one row: an empty row before
\* the current one if cx = 0, otherwise the row is split at cx; the other
\* rows are kept, the cursor ends at (cy + 1, 0) and dirty is > 0.
C9_NewlineSplits ==
  [][(/\ mode = "edit" /\ E.cy < E.numrows
      /\ KeyStep
      /\ (last'.op = "newline" \/ mode' = "crash")) =>
       /\ mode' = "edit"
       /\ E'.numrows = E.numrows + 1
       /\ E.cx <= Size(E, E.cy)
       /\ Raw(E') = RowsAfterNewline(Raw(E), E.cy, E.cx)
       /\ E'.cy = E.cy + 1 /\ E'.cx = 0
       /\ E'.dirty > 0]_vars

\* s without its byte at C index i
RemoveAt(s, i) == [k \in 1..(Len(s) - 1) |-> IF k <= i THEN s[k] ELSE s[k + 1]]

\* The rows after a join of row cy onto row cy - 1, as C10 states them
RowsAfterJoin(raw, cy) ==
  [j \in 1..(Len(raw) - 1) |->
     IF j < cy THEN raw[j]
     ELSE IF j = cy THEN raw[cy] \o raw[cy + 1]
     ELSE raw[j + 1]]

\* C10: Backspace changes nothing at (0, 0) and at the row past the end;
\* with cx > 0 it removes the byte at cx - 1 and decrements cx; with cx = 0
\* and cy > 0 it joins row cy onto row cy - 1 and puts the cursor at the
\* join point.
C10_DeleteBeforeCursor ==
  [][(mode = "edit" /\ last'.op = "delete") =>
       IF E.cy = E.numrows \/ (E.cx = 0 /\ E.cy = 0)
       THEN /\ Raw(E') = Raw(E)
            /\ E'.cx = E.cx /\ E'.cy = E.cy
            /\ E'.dirty = E.dirty
       ELSE IF E.cx > 0
       THEN /\ E.cx <= Size(E, E.cy)
            /\ Raw(E') = [Raw(E) EXCEPT ![E.cy + 1] = RemoveAt(@, E.cx - 1)]
            /\ E'.cx = E.cx - 1 /\ E'.cy = E.cy
       ELSE /\ Raw(E') = RowsAfterJoin(Raw(E), E.cy)
            /\ E'.numrows = E.numrows - 1
            /\ E'.cy = E.cy - 1 /\ E'.cx = Size(E, E.cy - 1)]_vars

HasTab(chars) == \E k \in 1..Len(chars) : chars[k] = TAB

\* C11: editorRowCxToRx is non-decreasing in cx over [0, size], a tab that
\* starts at render column r ends at r + (W - r % W) with W = 8, and any
\* other byte advances the render column by 1.
C11_CxToRxMonotoneTabStops ==
  (mode = "row" /\ last.op = "cx_to_rx") =>
    /\ \A a \in 0..last.cx :
         \A ra \in editorRowCxToRx(E.row[1], a) : ra <= last.rx
    /\ last.cx > 0 =>
         \A r \in editorRowCxToRx(E.row[1], last.cx - 1) :
           last.rx = IF E.row[1].chars[last.cx] = TAB THEN r + (8 - (r % 8)) ELSE r + 1

\* The column after a tab that starts at column 1
C11_Witness ==
  /\ mode = "row" /\ last.op = "cx_to_rx"
  /\ last.cx = 2 /\ last.rx = 8
  /\ E.row[1].chars[1] # TAB /\ E.row[1].chars[2] = TAB

\* C12: on a row without tabs, editorRowRxToCx(editorRowCxToRx(cx)) = cx
\* for every cx in [0, size].
C12_RoundTripWithoutTabs ==
  (mode = "row" /\ last.op = "cx_to_rx" /\ ~HasTab(E.row[1].chars)) =>
    editorRowRxToCx(E.row[1], last.rx) = last.cx

C12_Witness ==
  /\ mode = "row" /\ last.op = "cx_to_rx"
  /\ ~HasTab(E.row[1].chars)
  /\ 0 < last.cx /\ last.cx < Len(E.row[1].chars)
  /\ editorRowRxToCx(E.row[1], last.rx) = last.cx

\* C13: for every row and every render column r >= 0, editorRowRxToCx(r)
\* is in [0, size] and editorRowCxToRx of it is <= r.
C13_RxToCxInRowAndLeft ==
  (mode = "row" /\ last.op = "rx_to_cx") =>
    /\ 0 <= last.cx /\ last.cx <= Len(E.row[1].chars)
    /\ \A r \in editorRowCxToRx(E.row[1], last.cx) : r <= last.rx

\* A column inside a tab maps to the tab, whose own column is to the left
C13_Witness ==
  /\ mode = "row" /\ last.op = "rx_to_cx"
  /\ Len(E.row[1].chars) >= 2 /\ E.row[1].chars[2] = TAB
  /\ last.rx = 3 /\ last.cx = 1
  /\ editorRowCxToRx(E.row[1], last.cx) = {1}

IsKeywordClass(h) == h \in {HL_KEYWORD1, HL_KEYWORD2}

\* Keyword j of the C profile stands at render offset s with a separator or
\* the row start before it and a separator or the row end after it
KeywordBetweenSeparators(render, s, j) ==
  /\ StartsWith(render, s, SubSeq(C_HL_keywords[j], 1, KeywordLen(C_HL_keywords[j])))
  /\ s = 0 \/ is_separator(render[s])
  /\ is_separator(CharAt(render, s + KeywordLen(C_HL_keywords[j])))

\* Every character classified as a keyword lies in a keyword between
\* separators, and "intX" has no keyword character
KeywordsOnlyBetweenSeparators ==
  /\ \A k \in 1..Len(E.row[1].hl) :
       IsKeywordClass(E.row[1].hl[k]) =>
         \E j \in 1..Len(C_HL_keywords) : \E s \in 0..(k - 1) :
           /\ KeywordBetweenSeparators(E.row[1].render, s, j)
           /\ k <= s + KeywordLen(C_HL_keywords[j])
  /\ E.row[1].chars = <<105, 110, 116, 88>> =>
       \A k \in 1..4 : ~IsKeywordClass(E.row[1].hl[k])

\* C14 as claimed: keywords are classified only between separators, "intX"
\* has no keyword character, and the "int" of "int x" is HL_KEYWORD1.
C14_IntIsKeyword1 ==
  mode = "row" =>
    /\ KeywordsOnlyBetweenSeparators
    /\ E.row[1].chars = <<105, 110, 116, 32, 120>> =>
         \A k \in 1..3 : E.row[1].hl[k] = HL_KEYWORD1

\* C14 as amended: keywords are classified only between separators, "intX"
\* has no keyword character, and the "int" of "int x" is HL_KEYWORD2, "int|"
\* being a secondary keyword of C_HL_keywords.
C14_IntIsKeyword2 ==
  mode = "row" =>
    /\ KeywordsOnlyBetweenSeparators
    /\ E.row[1].chars = <<105, 110, 116, 32, 120>> =>
         /\ \A k \in 1..3 : E.row[1].hl[k] = HL_KEYWORD2
         /\ \A k \in 4..5 : E.row[1].hl[k] = HL_NORMAL

C14_Witness ==
  /\ mode = "row"
  /\ E.row[1].chars = <<105, 110, 116, 32, 120>>
  /\ E.row[1].hl = <<HL_KEYWORD2, HL_KEYWORD2, HL_KEYWORD2, HL_NORMAL, HL_NORMAL>>

\* Whether a block comment is open at the end of row j (C index) when the
\* document is scanned from row 0; j = -1 is the start of the document
RECURSIVE OpenAfter(_, _)
OpenAfter(e, j) ==
  IF j < 0 THEN FALSE
  ELSE ScanRow(HLDB[e.syntax], e.row[j + 1].render,
               [k \in 1..Len(e.row[j + 1].render) |-> HL_NORMAL], 0, TRUE, 0,
               OpenAfter(e, j - 1)).in_comment

\* Row j scanned starting in the comment state c
ScanFrom(e, j, c) ==
  ScanRow(HLDB[e.syntax], e.row[j + 1].render,
          [k \in 1..Len(e.row[j + 1].render) |-> HL_NORMAL], 0, TRUE, 0, c)

\* A block comment left open on row n: the row's flag is set, the next row
\* is scanned starting inside the comment, everything up to the close
\* marker is HL_MLCOMMENT, and the row that closes it has its flag clear
CommentCarried(e, n) ==
  OpenAfter(e, n) =>
    /\ e.row[n + 1].hl_open_comment
    /\ n + 1 < e.numrows =>
         /\ e.row[n + 2].hl = ScanFrom(e, n + 1, TRUE).hl
         /\ LET end == strstr(e.row[n + 2].render, <<42, 47>>)
                upto == IF end = -1 THEN Len(e.row[n + 2].render) ELSE end + 2
            IN  \A k \in 1..upto : e.row[n + 2].hl[k] = HL_MLCOMMENT
         /\ e.row[n + 2].hl_open_comment = OpenAfter(e, n + 1)

\* A step that re-highlights row E.cy in place leaves every later row alone
\* whose predecessor's open-comment state did not change
CascadeStops ==
  (last'.op \in {"char", "delete"} /\ E'.numrows = E.numrows /\ E.syntax # 0) =>
    \A r \in (E.cy + 1)..(E.numrows - 1) :
      E'.row[r].hl_open_comment = E.row[r].hl_open_comment =>
        E'.row[r + 1] = E.row[r + 1]

\* C15: a block comment opened on row N and not closed there sets row N's
\* open-comment flag and row N+1 is scanned inside the comment; up to the
\* close marker on row M everything is HL_MLCOMMENT, rows N..M-1 have the
\* flag set and row M has it clear (no other comment being left open on M).
C15_BlockCommentAcrossRows ==
  (mode = "edit" /\ E.syntax # 0) =>
    \A n \in 0..(E.numrows - 1) : CommentCarried(E, n)

\* The last part of C15: the cascade does not go past a row whose
\* open-comment state is unchanged.
C15_CascadeStops == [][CascadeStops]_vars

\* The rows (C indices) whose render contains q
RowsWith(e, q) == {j \in 0..(e.numrows - 1) : strstr(e.row[j + 1].render, q) # -1}

Min(S) == CHOOSE x \in S : \A y \in S : x <= y
Max(S) == CHOOSE x \in S : \A y \in S : y <= x

\* The first row of S after m, going on from the last row to row 0
FirstAfter(S, m) == IF \E j \in S : j > m THEN Min({j \in S : j > m}) ELSE Min(S)

\* The first row of S before m, going on from row 0 to the last row
FirstBefore(S, m) == IF \E j \in S : j < m THEN Max({j \in S : j < m}) ELSE Max(S)

\* A key of the Search prompt was handled and the prompt goes on
MatchStep == last'.op = "find" /\ last'.key # "start"

\* C16: after a typed key the match is on the first row, from row 0, whose
\* render contains the query; a forward step from last match row m lands on
\* the first matching row after m, wrapping to row 0; a backward step on
\* the first matching row before m, wrapping to the last row.
C16_SearchOrderWraps ==
  [][(MatchStep /\ RowsWith(E, buf') # {}) =>
       /\ last'.key = "other" =>
            (E'.cy = Min(RowsWith(E, buf')) /\ find'.last_match = E'.cy)
       /\ (last'.key = "forward" /\ find.last_match >= 0) =>
            (E'.cy = FirstAfter(RowsWith(E, buf'), find.last_match)
             /\ find'.last_match = E'.cy)
       /\ (last'.key = "backward" /\ find.last_match >= 0) =>
            (E'.cy = FirstBefore(RowsWith(E, buf'), find.last_match)
             /\ find'.last_match = E'.cy)]_vars

\* Of three rows the first and the last match: a forward step from the last
\* row has come back to row 0
C16_Witness ==
  /\ mode = "find" /\ last.op = "find" /\ last.key = "forward"
  /\ E.numrows = 3 /\ RowsWith(E, buf) = {0, 2}
  /\ last.from = 2 /\ E.cy = 0 /\ find.last_match = 0

RowsMarked(e) ==
  {j \in 0..(e.numrows - 1) :
     \E k \in 1..Len(e.row[j + 1].hl) : e.row[j + 1].hl[k] = HL_MATCH}

\* C17: when no row's render contains the query, a match step leaves cx,
\* cy and the scroll offsets as they were and marks nothing as HL_MATCH.
\* The offsets are those editorFindCallback returns with, before the next
\* editorRefreshScreen scrolls: last.kept records that they are the ones
\* it was called with.
C17_NoMatchNoChange ==
  [][(MatchStep /\ RowsWith(E, buf') = {}) =>
       /\ E'.cx = E.cx /\ E'.cy = E.cy
       /\ last'.kept
       /\ RowsMarked(E') = {}]_vars

\* The query stopped matching after the cursor had been taken to row 2
C17_Witness ==
  /\ mode = "find" /\ last.op = "find" /\ last.key = "other" /\ ~last.found
  /\ Len(buf) = 2 /\ RowsWith(E, buf) = {}
  /\ E.cy = 2 /\ last.start.cy = 0 /\ last.kept
  /\ RowsMarked(E) = {}

\* C18: Escape puts cx, cy, rowoff and coloff back to the values they had
\* when the search started.  The offsets are those editorFind returns
\* with, before the next editorRefreshScreen scrolls.
C18_EscapeRestores ==
  [][last'.op = "find_escape" =>
       /\ E'.cx = last.start.cx /\ E'.cy = last.start.cy
       /\ last'.rowoff = last.start.rowoff /\ last'.coloff = last.start.coloff]_vars

\* The same with the offsets the next editorRefreshScreen leaves: it holds
\* as long as the search started with the cursor inside its row.
C18_EscapeRestoresOnScreen ==
  [][(last'.op = "find_escape"
      /\ (last.start.cy < E.numrows => last.start.cx <= Size(E, last.start.cy))) =>
       /\ E'.rowoff = last.start.rowoff /\ E'.coloff = last.start.coloff]_vars

\* Escape after a match had taken the cursor to another row
C18_Witness ==
  /\ mode = "edit" /\ last.op = "find_escape"
  /\ last.moved
  /\ E.cy = last.start.cy /\ E.cx = last.start.cx
  /\ last.rowoff = last.start.rowoff /\ last.coloff = last.start.coloff
  /\ E.rowoff = last.start.rowoff /\ E.coloff = last.start.coloff

\* Enter was pressed in the Search prompt
SearchEnter == last'.op = "find_enter" \/ (last'.op = "find" /\ last'.key = "enter")

\* C19 as claimed: Enter ends the search whatever the query buffer holds,
\* and the cursor stays where the last match step put it.
C19_EnterAlwaysEnds ==
  [][(mode = "find" /\ SearchEnter) =>
       (mode' = "edit" /\ E'.cx = E.cx /\ E'.cy = E.cy)]_vars

\* C19 as amended: Enter ends the search when the query buffer is not
\* empty and the search goes on when it is empty; either way the cursor
\* stays where the last match step put it.
C19_EnterEndsNonEmpty ==
  [][(mode = "find" /\ SearchEnter) =>
       /\ mode' = (IF Len(buf) # 0 THEN "edit" ELSE "find")
       /\ E'.cx = E.cx /\ E'.cy = E.cy]_vars

\* Enter left the cursor on the row of the match
C19_Witness ==
  /\ mode = "edit" /\ last.op = "find_enter"
  /\ E.cy # last.start.cy

\* C20: during a search at most one row has HL_MATCH characters; once the
\* search has ended by Enter or Escape no row has any and every row's
\* highlight is what it was before the search.
C20_MatchMarkConfined ==
  [][/\ mode' = "find" => Cardinality(RowsMarked(E')) <= 1
     /\ last'.op \in {"find_enter", "find_escape"} =>
          (RowsMarked(E') = {} /\ Hl(E') = last.start.hl)]_vars

\* The mark has moved from one row to another
C20_Witness ==
  /\ mode = "find" /\ last.op = "find" /\ last.found
  /\ last.from >= 0 /\ last.from # E.cy
  /\ RowsMarked(E) = {E.cy}

\* The render offset of the match on row j (C index) for query q
MatchOffset(e, j, q) == strstr(e.row[j + 1].render, q)

\* C21: on a match cy is the matched row, the column of cx is the render
\* offset of the match start (editorRowCxToRx(row, cx) = offset), also
\* behind tabs, and HL_MATCH covers exactly the query's length from that
\* offset.
C21_MatchPlacesCursor ==
  [][(MatchStep /\ last'.found) =>
       /\ E'.cy \in RowsWith(E, buf')
       /\ editorRowCxToRx(E'.row[E'.cy + 1], E'.cx)
            = {MatchOffset(E, E'.cy, buf')}
       /\ E'.row[E'.cy + 1].hl
            = memset(last.start.hl[E'.cy + 1], MatchOffset(E, E'.cy, buf'),
                     HL_MATCH, Len(buf'))]_vars

\* What holds of C21: the row and the marked slice are as claimed, and cx
\* is the render offset itself, not the raw column that renders there.
C21_MatchAtRenderOffset ==
  [][(MatchStep /\ last'.found) =>
       /\ E'.cy \in RowsWith(E, buf')
       /\ E'.cx = MatchOffset(E, E'.cy, buf')
       /\ E'.row[E'.cy + 1].hl
            = memset(last.start.hl[E'.cy + 1], MatchOffset(E, E'.cy, buf'),
                     HL_MATCH, Len(buf'))]_vars

\* The number of the read that gave the first byte of the call, 0 if no
\* read gave one
FirstByteAt == FirstRead(buf, 1)

\* The first byte was the escape byte
EscapeFirst == FirstByteAt # 0 /\ buf[FirstByteAt] = ESC

\* The result of follow-up read k after the escape byte
FollowUp(k) == ResultAt(buf, FirstByteAt + k)

IsByte(r) == r \in 0..255

\* The follow-up pairs of the key table: '[' with one of A B C D H F,
\* 'O' with H or F; '[' with a digit waits for a third byte
TablePairs ==
  {<<91, l>> : l \in {65, 66, 67, 68, 72, 70}} \cup {<<79, 72>>, <<79, 70>>}

Returned(k) == mode = "key" /\ last.out = "key" /\ last.key = k

\* Two follow-up bytes came that are not in the set of pairs ps and do not
\* open a digit sequence
NoPairOf(ps) ==
  /\ EscapeFirst /\ IsByte(FollowUp(1)) /\ IsByte(FollowUp(2))
  /\ <<FollowUp(1), FollowUp(2)>> \notin ps
  /\ ~(FollowUp(1) = 91 /\ FollowUp(2) \in 48..57)

\* ESC and then a read that gives nothing returns bare Escape; any
\* other first byte is returned as itself with no read after it
EscapeTimeoutAndPlainBytes ==
  /\ (EscapeFirst /\ FollowUp(1) = NoData) => Returned(ESC)
  /\ (EscapeFirst /\ IsByte(FollowUp(1)) /\ FollowUp(2) = NoData) => Returned(ESC)
  /\ (FirstByteAt # 0 /\ IsByte(buf[FirstByteAt]) /\ buf[FirstByteAt] # ESC) =>
       /\ mode = "key" /\ last.out = "key"
       /\ last.key % 256 = buf[FirstByteAt]
       /\ last.reads = FirstByteAt

\* C22: ESC followed by a read that gives nothing, at the first or the
\* second follow-up, returns bare Escape; two follow-up bytes that are no
\* pair of the table return bare Escape; any other first byte is returned
\* as itself, with no read after it.
C22_BareEscapeAndPlainBytes ==
  last.op = "readkey" =>
    /\ EscapeTimeoutAndPlainBytes
    /\ NoPairOf(TablePairs) => Returned(ESC)

\* What holds of C22: the same with the pairs '0' H and '0' F, which the
\* decoder takes for Home and End, and 'O' H and 'O' F, which it does not,
\* in the place of the table's.
C22_ExceptZeroPairs ==
  last.op = "readkey" =>
    /\ EscapeTimeoutAndPlainBytes
    /\ NoPairOf(TablePairs \cup {<<48, 72>>, <<48, 70>>}) => Returned(ESC)

NavKeys ==
  {ARROW_UP, ARROW_DOWN, ARROW_RIGHT, ARROW_LEFT, HOME_KEY, END_KEY, PAGE_UP, PAGE_DOWN}

\* ESC '[' d '~' came, d a digit byte
TildeSequence(d) ==
  /\ EscapeFirst
  /\ FollowUp(1) = 91 /\ FollowUp(2) = d /\ FollowUp(3) = 126

\* ESC '[' l came, l not a digit
BracketSequence(l) == EscapeFirst /\ FollowUp(1) = 91 /\ FollowUp(2) = l

\* ESC b l came
PairSequence(b, l) == EscapeFirst /\ FollowUp(1) = b /\ FollowUp(2) = l

\* The sequences ESC [ d ~ and ESC [ L give their keys
BracketTable ==
  /\ (TildeSequence(49) \/ TildeSequence(55)) => Returned(HOME_KEY)
  /\ (TildeSequence(52) \/ TildeSequence(56)) => Returned(END_KEY)
  /\ TildeSequence(53) => Returned(PAGE_UP)
  /\ TildeSequence(54) => Returned(PAGE_DOWN)
  /\ BracketSequence(65) => Returned(ARROW_UP)
  /\ BracketSequence(66) => Returned(ARROW_DOWN)
  /\ BracketSequence(67) => Returned(ARROW_RIGHT)
  /\ BracketSequence(68) => Returned(ARROW_LEFT)
  /\ BracketSequence(72) => Returned(HOME_KEY)
  /\ BracketSequence(70) => Returned(END_KEY)

\* The call read one of the sequences of BracketTable
InBracketTable ==
  \/ \E d \in {49, 52, 53, 54, 55, 56} : TildeSequence(d)
  \/ \E l \in {65, 66, 67, 68, 72, 70} : BracketSequence(l)

\* C23: ESC [ d ~ is Home for d in {1,7}, End for d in {4,8}, Page Up for
\* 5, Page Down for 6; ESC [ L is Up, Down, Right, Left, Home, End for L =
\* A, B, C, D, H, F; and no other byte sequence gives any of these keys.
C23_BracketSequencesOnly ==
  last.op = "readkey" =>
    /\ BracketTable
    /\ (mode = "key" /\ last.key \in NavKeys) => InBracketTable

\* What holds of C23: the table, and the only other sequences that give a
\* navigation key are ESC '0' H and ESC '0' F.
C23_BracketOrZeroSequences ==
  last.op = "readkey" =>
    /\ BracketTable
    /\ (mode = "key" /\ last.key \in NavKeys) =>
         (InBracketTable \/ PairSequence(48, 72) \/ PairSequence(48, 70))

\* C24: ESC O H is Home and ESC O F is End, the second byte the letter O.
C24_LetterOSequences ==
  last.op = "readkey" =>
    /\ PairSequence(79, 72) => Returned(HOME_KEY)
    /\ PairSequence(79, 70) => Returned(END_KEY)

\* What holds of C24: the decoder takes the digit 0 where the letter O is
\* meant, and ESC O H, ESC O F come back as bare Escape.
C24_DigitZeroSequences ==
  last.op = "readkey" =>
    /\ PairSequence(48, 72) => Returned(HOME_KEY)
    /\ PairSequence(48, 70) => Returned(END_KEY)
    /\ (PairSequence(79, 72) \/ PairSequence(79, 70)) => Returned(ESC)

\* die("read"): the process has ended and no key came back
Died == mode = "exit" /\ last.out = "die"

\* A follow-up read of an escape sequence failed: the first, the second,
\* or the third after ESC '[' and a digit
FollowUpFailed ==
  /\ EscapeFirst
  /\ \/ FollowUp(1) = ReadError
     \/ IsByte(FollowUp(1)) /\ FollowUp(2) = ReadError
     \/ FollowUp(1) = 91 /\ FollowUp(2) \in 48..57 /\ FollowUp(3) = ReadError

\* A failed read ends the while loop of the call, and nothing on the
\* first byte makes the call read again
FirstReadFatalOrPolls ==
  /\ (FirstByteAt # 0 /\ buf[FirstByteAt] = ReadError) => Died
  /\ buf[1] = NoData => ~(mode = "key" /\ last.reads = 1)
  /\ (\A k \in 1..Len(buf) : buf[k] = NoData) => (mode = "poll" /\ last.out = "poll")

\* C25: a read failure other than "no data yet" during a call, on the
\* first byte or on a follow-up byte of an escape sequence, ends the
\* process and no key is returned; "no data yet" on the first byte makes
\* the call poll again.
C25_ReadErrorFatal ==
  last.op = "readkey" =>
    /\ FirstReadFatalOrPolls
    /\ FollowUpFailed => Died

\* What holds of C25: the first byte is as claimed; a failed follow-up
\* read is taken for a timeout and the call returns bare Escape.
C25_FollowUpErrorIsEscape ==
  last.op = "readkey" =>
    /\ FirstReadFatalOrPolls
    /\ FollowUpFailed => Returned(ESC)

\* The cursor is inside the window of ScreenRows lines from line ro
RowInside(e, ro) == ro <= e.cy /\ e.cy < ro + ScreenRows

\* Render column rx is inside the window of ScreenCols columns from co
ColInside(rx, co) == co <= rx /\ rx < co + ScreenCols

Abs(n) == IF n < 0 THEN -n ELSE n

\* The columns editorRowCxToRx gives for the cursor, 0 on the line after
\* the last row
CursorColumns(e) ==
  IF e.cy < e.numrows THEN editorRowCxToRx(e.row[e.cy + 1], e.cx) ELSE {0}

\* After a draw the cursor is inside the window, rx is the render column
\* of cx and no offset is negative
CursorInWindow(e) ==
  /\ RowInside(e, e.rowoff) /\ ColInside(e.rx, e.coloff)
  /\ e.rx \in CursorColumns(e)
  /\ e.rowoff >= 0 /\ e.coloff >= 0

\* C26: after every draw rowoff <= cy < rowoff + ScreenRows and coloff <=
\* rx < coloff + ScreenCols, with rx the render column of cx (0 on the
\* line after the last row) and neither offset negative; an offset whose
\* window already held the cursor is unchanged, and otherwise it moves by
\* the least amount that brings the cursor into the window.
C26_DrawKeepsCursorInWindow ==
  [][mode = "draw" =>
       /\ CursorInWindow(E')
       /\ RowInside(E, E.rowoff) => E'.rowoff = E.rowoff
       /\ ColInside(E'.rx, E.coloff) => E'.coloff = E.coloff
       /\ \A ro \in 0..E.cy :
            RowInside(E, ro) => Abs(E'.rowoff - E.rowoff) <= Abs(ro - E.rowoff)
       /\ \A co \in 0..E'.rx :
            ColInside(E'.rx, co) => Abs(E'.coloff - E.coloff) <= Abs(co - E.coloff)
       /\ E'.cx = E.cx /\ E'.cy = E.cy /\ E'.row = E.row]_vars

\* The same window property in every state of the editor in which it
\* waits for a key
C26_CursorInWindowAtEveryKey ==
  mode \in {"edit", "find", "saveas"} => CursorInWindow(E)

\* The cursor was below and right of the window and the draw has brought
\* the window down and right just far enough
C26_Witness ==
  /\ mode = "drawn" /\ last.op = "scroll"
  /\ E.rowoff = E.cy - ScreenRows + 1 /\ E.rowoff > last.rowoff
  /\ E.coloff = E.rx - ScreenCols + 1 /\ E.coloff > last.coloff
  /\ CursorInWindow(E)

\* The Document and the cursor: rows, dirty counter, filename, syntax
\* profile, highlights, cx and cy
Document(e) ==
  [raw |-> Raw(e), dirty |-> e.dirty, filename |-> e.filename, syntax |-> e.syntax,
   hl |-> Hl(e), cx |-> e.cx, cy |-> e.cy]

\* editorSave() ran to its "Can't save! I/O error" message in this step
SaveFailed == last'.op = "save" /\ ~last'.ok /\ statusmsg' = "ioerror"

\* C27: when a save fails with an I/O error, also a first save that went
\* through the Save-as prompt, rows, dirty counter, filename, syntax
\* profile, highlights and cursor are what they were before the save
\* command; only the status message changes.
C27_FailedSaveChangesNothing ==
  [][SaveFailed => Document(E') = Document(E)]_vars

\* What holds of C27: a failed save of a document that has a filename
\* changes nothing; after the Save-as prompt the typed name stays as the
\* filename and the syntax is selected for it, and rows, dirty counter
\* and cursor are unchanged.
C27_FailedSaveKeepsTypedName ==
  [][SaveFailed =>
       /\ ~last'.prompted => Document(E') = Document(E)
       /\ last'.prompted =>
            /\ E.filename = NULL /\ E'.filename = buf /\ Len(buf) > 0
            /\ E' \in editorScroll(editorSelectSyntaxHighlight([E EXCEPT !.filename = buf]))
            /\ Raw(E') = Raw(E) /\ E'.dirty = E.dirty
            /\ E'.cx = E.cx /\ E'.cy = E.cy]_vars

\* editorSave() wrote the file in this step
SaveDone == last'.op = "save" /\ last'.ok /\ KeyStep

\* C28: the dirty counter is 0 after a load and after a successful save,
\* and nonzero exactly when an edit that changed the document has
\* completed since: every step that changes the rows raises it, a
\* successful save sets it to 0, and no other step (cursor movement,
\* search, refresh, a failed or cancelled save, a delete that deletes
\* nothing) changes it.
C28_DirtyCountsEdits ==
  /\ E.dirty = 0
  /\ [][/\ SaveDone => E'.dirty = 0
        /\ Raw(E') # Raw(E) => (E'.dirty > E.dirty /\ last'.op \in {"char", "newline", "delete"})
        /\ (~SaveDone /\ Raw(E') = Raw(E)) => E'.dirty = E.dirty]_vars

\* A loaded file was edited and then saved
C28_Witness ==
  /\ mode = "edit" /\ last.op = "save" /\ last.ok /\ ~last.prompted
  /\ E.dirty = 0
  /\ \A f \in StartFiles : Raw(E) # f.lines

\* What editorSave() would write in this state
SaveContent == editorRowsToString(E)

\* C29: in every document the keys can produce from an empty or loaded
\* one, the saved content is every row's raw bytes followed by one LF, of
\* length (sum of the row sizes) + (number of rows), and loading that
\* content gives the same rows back.
C29_SaveLoadRoundTrip ==
  /\ Len(SaveContent) = TotLen(E, 1)
  /\ LoadLines(SaveContent) = Raw(E)

\* A row holds a byte the loader takes for a line end
LineEndInRow ==
  \E j \in 1..E.numrows :
    \/ \E k \in 1..Len(E.row[j].chars) : E.row[j].chars[k] = LF
    \/ Len(E.row[j].chars) > 0 /\ E.row[j].chars[Len(E.row[j].chars)] = CR

\* What holds instead: the content has the stated shape in every state,
\* and it loads back to the same rows unless a typed LF is in a row.
C29_RoundTripWithoutLineEnds ==
  /\ Len(SaveContent) = TotLen(E, 1)
  /\ ~LineEndInRow => LoadLines(SaveContent) = Raw(E)

\* The bytes s with c put in before position k (k counted from 0)
InsertedAt(s, k, c) == SubSeq(s, 1, k) \o <<c>> \o SubSeq(s, k + 1, Len(s))

\* The rows other than the cursor's row are what they were
OtherRowsKept ==
  \A j \in 0..(E.numrows - 1) : j # E.cy => E'.row[j + 1].chars = E.row[j + 1].chars

\* C30: typing a character c with the cursor on the line after the last
\* row appends an empty row and puts c in it: one more row, row cy is
\* [c], cx is 1 and cy, unchanged, is now a row index. With the cursor on
\* a row, c is inserted at column cx of that row, cx advances by one and
\* the number of rows is unchanged.
C30_InsertCharAtCursor ==
  [][last'.op = "char" =>
       IF E.cy = E.numrows
       THEN /\ E'.numrows = E.numrows + 1
            /\ E'.row[E.cy + 1].chars = <<last'.key>>
            /\ E'.cx = 1
            /\ E'.cy = E.cy /\ E'.cy < E'.numrows
            /\ OtherRowsKept
       ELSE /\ E.cx <= Size(E, E.cy)
            /\ E'.row[E.cy + 1].chars = InsertedAt(E.row[E.cy + 1].chars, E.cx, last'.key)
            /\ E'.cx = E.cx + 1 /\ E'.cy = E.cy
            /\ E'.numrows = E.numrows
            /\ OtherRowsKept]_vars

\* What holds instead: the same, except that with the cursor column
\* beyond the end of its row (left there by a search match) the character
\* is appended to the row and cx still advances by one.
C30_InsertCharClamped ==
  [][last'.op = "char" =>
       IF E.cy = E.numrows
       THEN /\ E'.numrows = E.numrows + 1
            /\ E'.row[E.cy + 1].chars = <<last'.key>>
            /\ E'.cx = 1
            /\ E'.cy = E.cy /\ E'.cy < E'.numrows
            /\ OtherRowsKept
       ELSE /\ E'.row[E.cy + 1].chars =
                 InsertedAt(E.row[E.cy + 1].chars, Min({E.cx, Size(E, E.cy)}), last'.key)
            /\ E'.cx = E.cx + 1 /\ E'.cy = E.cy
            /\ E'.numrows = E.numrows
            /\ OtherRowsKept]_vars

\* C31: editorInsertRow(at, ...) with at outside [0, numrows] and
\* editorDelRow(at) with at outside [0, numrows - 1] change neither the
\* rows, nor their number, nor the dirty counter; with at in range the
\* number of rows changes by exactly one (up for an insertion, down for a
\* deletion) and the dirty counter is incremented.
C31_RowOpsValidateAt ==
  [][/\ last'.op = "insert_row" =>
          IF last'.at < 0 \/ last'.at > E.numrows
          THEN Raw(E') = Raw(E) /\ E'.numrows = E.numrows /\ E'.dirty = E.dirty
          ELSE E'.numrows = E.numrows + 1 /\ E'.dirty = E.dirty + 1
     /\ last'.op = "del_row" =>
          IF last'.at < 0 \/ last'.at > E.numrows - 1
          THEN Raw(E') = Raw(E) /\ E'.numrows = E.numrows /\ E'.dirty = E.dirty
          ELSE E'.numrows = E.numrows - 1 /\ E'.dirty = E.dirty + 1]_vars

\* After a call that changed the rows, an insertion was refused for a
\* position past the one that appends
C31_Witness ==
  /\ last.op = "insert_row" /\ last.at > E.numrows
  /\ E.numrows > 0 /\ E.dirty > 0

\* C32: after any sequence of row insertions and deletions (file load,
\* Enter splitting a row, a character typed on the line after the last
\* row, Backspace joining two rows) every row's idx is its position:
\* row[i].idx = i for 0 <= i < numrows.
C32_IdxIsPosition ==
  \A i \in 0..(E.numrows - 1) : E.row[i + 1].idx = i

\* Enter split a row above other rows, which moved down, and Backspace
\* joined the two halves again, which moved them back up
C32_Witness ==
  /\ last.op = "delete" /\ last.after = "newline"
  /\ E.cy < E.numrows - 1
  /\ E.dirty >= 2

\* The rows editorUpdateSyntax was called on in this step
Visited(calls) == {calls[k].row : k \in 1..Len(calls)}

\* C33: the cascade of highlight calls started by one change of a row
\* ends; it starts on the changed row, each further call is on the next
\* higher row, so no row is done twice; it makes at most (number of rows -
\* index of the changed row) calls; and it goes on to the next row only
\* when the open-comment state of the row just done changed.  The rows it
\* did not visit keep their highlight.
C33_CascadeBounded ==
  [][last'.op = "update" =>
       LET calls == last'.calls
       IN  /\ Len(calls) >= 1
           /\ calls[1].row = last'.at
           /\ \A k \in 1..(Len(calls) - 1) :
                /\ calls[k + 1].row = calls[k].row + 1
                /\ calls[k].changed
           /\ Len(calls) <= E'.numrows - last'.at
           /\ \A j \in 0..(E'.numrows - 1) :
                (j \notin Visited(calls) /\ E'.numrows = E.numrows)
                  => E'.row[j + 1].hl = E.row[j + 1].hl]_vars

\* A change of row 0 was followed down two more rows, and stopped before
\* the last row
C33_Witness ==
  /\ last.op = "update" /\ last.at = 0
  /\ Len(last.calls) = 3
  /\ E.numrows > 3

\* The row that was loaded last, and what its scan passed through
Loaded == E.row[E.numrows]

CarriedIn == E.numrows > 1 /\ E.row[E.numrows - 1].hl_open_comment

LoadedStates ==
  ScanStates(HLDB[E.syntax], Loaded.render, [k \in 1..Len(Loaded.render) |-> HL_NORMAL],
             0, TRUE, 0, CarriedIn)

\* "//" is at the scan position
MarkerAt(st) == StartsWith(Loaded.render, st.i, HLDB[E.syntax].singleline_comment_start)

Outside(st) == st.in_string = 0 /\ ~st.in_comment

\* The highlight of the first n characters of the row when they are a row
\* of their own
AloneHl(n) ==
  ScanRow(HLDB[E.syntax], SubSeq(Loaded.render, 1, n), [k \in 1..n |-> HL_NORMAL],
          0, TRUE, 0, CarriedIn).hl

\* C34: a single-line comment marker makes the rest of the row HL_COMMENT
\* only when the scan is at the marker outside a string and outside a
\* block comment (one carried in from the row before included); a marker
\* met inside a string or a block comment starts no comment, and the
\* characters before a marker that does start one are highlighted as they
\* would be without it.
C34_LineCommentOutsideOnly ==
  mode = "row" =>
    /\ \A st \in LoadedStates :
         MarkerAt(st) =>
           IF Outside(st)
           THEN /\ \A k \in (st.i + 1)..Len(Loaded.hl) : Loaded.hl[k] = HL_COMMENT
                /\ SubSeq(Loaded.hl, 1, st.i) = AloneHl(st.i)
           ELSE /\ Loaded.hl[st.i + 1] # HL_COMMENT
                /\ Loaded.hl[st.i + 1] = (IF st.in_comment THEN HL_MLCOMMENT ELSE HL_STRING)
    /\ \A k \in 1..Len(Loaded.hl) :
         Loaded.hl[k] = HL_COMMENT =>
           \E st \in LoadedStates : st.i < k /\ MarkerAt(st) /\ Outside(st)

\* A row with a marker inside a string and, after the string, a marker
\* that starts a comment; a row after an open block comment with a marker
\* in it
C34_Witness ==
  /\ mode = "row"
  /\ \E st \in LoadedStates : MarkerAt(st) /\ st.in_string # 0
  /\ \E st \in LoadedStates : MarkerAt(st) /\ Outside(st) /\ st.i > 0

C34_WitnessCarried ==
  /\ mode = "row" /\ CarriedIn
  /\ \E st \in LoadedStates : MarkerAt(st) /\ st.in_comment

\* C35: with the dirty counter at 0 one press of Ctrl-Q exits at once,
\* whatever quit_times is and whatever keys came before; so after a
\* successful save in the middle of a quit sequence the next press exits.
C35_CleanQuitExits ==
  [][(last'.op = "quit" /\ E.dirty = 0) => mode' = "exit"]_vars

\* An edited file, a Ctrl-Q that only warned, a successful save, and the
\* Ctrl-Q after it
C35_Witness ==
  /\ mode = "exit"
  /\ last.op = "quit" /\ last.saved
  /\ E.dirty = 0

\* C36: between two key dispatches, a cursor on the line after the last
\* row (cy = numrows) is at column 0.
C36_SentinelColumnZero ==
  mode = "edit" => (E.cy = E.numrows => E.cx = 0)

\* After an edit, a cursor key brought the cursor to the line after a
\* last row that is not empty
C36_Witness ==
  /\ mode = "edit" /\ last.op = "none"
  /\ E.cy = E.numrows /\ E.cx = 0
  /\ E.numrows > 0 /\ E.dirty > 0
  /\ E.row[E.numrows].chars # <<>>

\* The number of LF bytes in the rows
RECURSIVE CountByte(_, _)
CountByte(str, b) ==
  IF str = <<>> THEN 0 ELSE (IF Head(str) = b THEN 1 ELSE 0) + CountByte(Tail(str), b)

LineFeeds(e) == CountByte(editorRowsToString(e), LF) - e.numrows

\* C37: in a document started empty, after any sequence of keys no row
\* contains the byte LF (0x0A): a line break is only a row boundary.
C37_NoLineFeedInRows ==
  E.filename = NULL => LineFeeds(E) = 0

\* What holds instead: an LF gets into a row only by the key Ctrl-J (byte
\* 0x0A), which the dispatch inserts like any other character, and no row
\* ever contains CR.
C37_LineFeedOnlyTyped ==
  [][LineFeeds(E') > LineFeeds(E) =>
       /\ last'.op = "char" /\ last'.key = LF
       /\ LineFeeds(E') = LineFeeds(E) + 1]_vars

C37_NoCarriageReturnInRows ==
  CountByte(editorRowsToString(E), CR) = 0

\* C38: whatever bytes arrive, editorReadKey never returns DEL_KEY; the
\* sequence ESC [ 3 ~ returns a bare Escape.  The DEL_KEY branch of the
\* dispatch (move right, then delete backward) is therefore never taken
\* on terminal input.
C38_NeverForwardDelete ==
  mode = "key" =>
    /\ last.key # DEL_KEY
    /\ TildeSequence(51) => Returned(ESC)

\* ESC [ 3 ~ was read, all four bytes
C38_Witness ==
  /\ buf = <<ESC, 91, 51, 126>>
  /\ Returned(ESC) /\ last.reads = 4

\* The keys the dispatch is given do not include DEL_KEY
C38_DispatchNeverSeesDelete == DEL_KEY \notin Keys

\* The loaded row is the word w between pre and post, and the word's
\* characters all have the highlight class h
WordIs(pre, w, post) == mode = "row" /\ E.row[1].chars = pre \o w \o post

WordHl(pre, w, h) ==
  \A k \in (Len(pre) + 1)..(Len(pre) + Len(w)) : E.row[1].hl[k] = h

\* C39: in a C file each of switch, if, while, for, break, continue,
\* return, else, struct, union, typedef, static, enum, class, case is
\* HL_KEYWORD1 when a separator or the row start is before it and a
\* separator or the row end after it, and each of int, long, double,
\* float, char, unsigned, signed, void is HL_KEYWORD2.
C39_KeywordClasses ==
  \A pre \in Before, post \in After :
    /\ \A w \in PrimaryWords : WordIs(pre, w, post) => WordHl(pre, w, HL_KEYWORD1)
    /\ \A w \in SecondaryWords : WordIs(pre, w, post) => WordHl(pre, w, HL_KEYWORD2)

\* What holds instead: "else" and "struct" are not highlighted, their
\* concatenation "elsestruct" is HL_KEYWORD1, and the other words are as
\* stated.
C39_KeywordClassesInTable ==
  \A pre \in Before, post \in After :
    /\ \A w \in PrimaryWords :
         WordIs(pre, w, post) =>
           WordHl(pre, w, IF w \in {<<101, 108, 115, 101>>, <<115, 116, 114, 117, 99, 116>>}
                          THEN HL_NORMAL ELSE HL_KEYWORD1)
    /\ WordIs(pre, ElseStruct, post) => WordHl(pre, ElseStruct, HL_KEYWORD1)
    /\ \A w \in SecondaryWords : WordIs(pre, w, post) => WordHl(pre, w, HL_KEYWORD2)

Render(e) == [j \in 1..e.numrows |-> e.row[j].render]

\* What a search session must leave alone
SearchFrame(e) ==
  [raw |-> Raw(e), render |-> Render(e), numrows |-> e.numrows, dirty |-> e.dirty,
   filename |-> e.filename]

\* A step of a search session: Ctrl-F, a key of the prompt, or the Enter
\* or Escape that ends it
SearchStep == mode = "find" \/ mode' = "find"

\* The rows whose highlight is not the one the session started with
RowsRecoloured(e, start) == {j \in 1..e.numrows : e.row[j].hl # start.hl[j]}

\* C40: from Ctrl-F until Enter or Escape ends the search, whatever is
\* typed, no row's chars or render, the number of rows, the dirty counter
\* and the filename change; only the cursor, the scroll offsets, the
\* status message and the highlight of one row can.
C40_SearchChangesNoText ==
  [][SearchStep =>
       /\ SearchFrame(E') = SearchFrame(E)
       /\ Cardinality(RowsRecoloured(E', last'.start)) <= 1]_vars

\* An edited document was searched, and the search ended by Enter on a
\* match away from where it started
C40_Witness ==
  /\ mode = "edit" /\ last.op = "find_enter"
  /\ E.dirty > 0
  /\ E.cy # last.start.cy

====
